---------------------------- MODULE Spec2Model ----------------------------
(***************************************************************************)
(* A model of the orcrs ORC reader: the byte run-length decoder, the       *)
(* PRESENT-stream writer and the column assemblers, the row iterator and   *)
(* the two integer run-length decoders, the decompressor and the metadata  *)
(* parser.  Every component has its own specification (SpecByte,           *)
(* SpecColumn, SpecRows, SpecInt, SpecDc, SpecParser; SpecDirect,          *)
(* SpecPatched and SpecDelta run the v2 decoder on frames of one kind);    *)
(* the variables of the components a specification does not exercise stay  *)
(* at their idle values.                                                   *)
(***************************************************************************)
EXTENDS Integers, Sequences, FiniteSets, TLC

VARIABLES
    bw_input,       \* byte RLE: the whole encoded input handed to the caller
    bw_pos,         \* byte RLE: how many bytes of bw_input have been written so far
    bw_state,       \* ByteWriter.state
    bw_out,         \* ByteWriter.writer: the bytes written downstream (a Vec<u8>)
    bw_ret,         \* the value returned by the last ByteWriter::write, -1 before any
    bw_buflen,      \* the length of the buffer of the last ByteWriter::write, -1 before any
    bw_cuts,        \* the input positions at which a write call has ended
    overflow_checks,\* the build profile: TRUE when integer overflow panics (dev/test),
                    \* FALSE when it wraps (release)
    c_in,           \* column read: the decoded streams of the column being read
    c_phase,        \* column read: "present", "data", "get" or "crashed"
    c_piw,          \* the PresentInfoWriter
    c_pos,          \* how many decoded bytes the current writer has been handed
    c_cuts,         \* the positions at which a PresentInfoWriter::write call ended
    c_null,         \* the result of read_null_runs (PresentInfoWriter::into_inner)
    c_boolw,        \* the BoolWriter
    c_col,          \* the materialized Column
    c_get,          \* the last Column::get: the row asked for and what came back
    r_file,         \* row iteration: the stripes of the file and what their columns hold
    r_columns,      \* MappedRows.columns: the column indices asked for, in order
    r_f,            \* MappedRows.f: which mapping function the caller supplied
    r_it,           \* MappedRows: current_stripe, current_row and data
    r_items,        \* the items next has yielded so far (its Some returns), in order
    r_nones,        \* how many times next has returned None
    i_version,      \* integer RLE: which decoder runs, 1 (intv1) or 2 (intv2)
    i_signed,       \* decode_u64s: the signed argument
    i_frames,       \* the frames whose concatenation is the bytes argument
    i_pos,          \* decode_u64s: how many bytes lie before current
    i_values,       \* decode_u64s: values
    i_reads,        \* the read_len of every append_next_u64s that returned Some
    i_status,       \* "running", or how decode_u64s ended: "some", "none", "panic",
                    \* "abort"
    dc_file,        \* decompressor: the bytes of the file
    dc_window,      \* the arguments of Decompressor::open: pos, len and compression
    dc_at,          \* the position of the File, counted from the start of the file
    dc,             \* the Decompressor: decoder, compression and remaining
    dc_status,      \* "unopened", "open", "failed" (open returned Err), "panic" or
                    \* "closed" (into_inner has given the File back)
    dc_out,         \* the bytes the reads have delivered so far, in order
    dc_ret,         \* what the last read returned
    dc_opened,      \* the chunk lengths of the headers read so far, in order
    p_meta,         \* parser: what the file holds (PostScript, Footer, stripe footers and
                    \* what every stream decodes into)
    p_orc,          \* the OrcFile: type_kinds, field_names, field_name_map and whether
                    \* file is Some
    p_plan,         \* the Vec<StripeInfo> the last successful get_stripe_info returned
    p_ret           \* the last call on the parser and what it returned

byteVars == <<bw_input, bw_pos, bw_state, bw_out, bw_ret, bw_buflen, bw_cuts>>

colVars == <<c_in, c_phase, c_piw, c_pos, c_cuts, c_null, c_boolw, c_col, c_get>>

rowVars == <<r_file, r_columns, r_f, r_it, r_items, r_nones>>

intVars == <<i_version, i_signed, i_frames, i_pos, i_values, i_reads, i_status>>

dcVars == <<dc_file, dc_window, dc_at, dc, dc_status, dc_out, dc_ret, dc_opened>>

parserVars == <<p_meta, p_orc, p_plan, p_ret>>

vars == <<bw_input, bw_pos, bw_state, bw_out, bw_ret, bw_buflen, bw_cuts,
          overflow_checks,
          c_in, c_phase, c_piw, c_pos, c_cuts, c_null, c_boolw, c_col, c_get,
          r_file, r_columns, r_f, r_it, r_items, r_nones,
          i_version, i_signed, i_frames, i_pos, i_values, i_reads, i_status,
          dc_file, dc_window, dc_at, dc, dc_status, dc_out, dc_ret, dc_opened,
          p_meta, p_orc, p_plan, p_ret>>

\* What the actions of one component leave alone.
byteOthers == <<overflow_checks, colVars, rowVars, intVars, dcVars, parserVars>>
colOthers == <<byteVars, overflow_checks, rowVars, intVars, dcVars, parserVars>>
rowOthers == <<byteVars, overflow_checks, colVars, intVars, dcVars, parserVars>>
intOthers == <<byteVars, overflow_checks, colVars, rowVars, dcVars, parserVars>>
dcOthers == <<byteVars, overflow_checks, colVars, rowVars, intVars, parserVars>>
parserOthers == <<byteVars, overflow_checks, colVars, rowVars, intVars, dcVars>>

----------------------------------------------------------------------------
(* Generic helpers *)

Range(s) == {s[i] : i \in 1..Len(s)}

RECURSIVE SeqsUpTo(_, _)
SeqsUpTo(S, n) ==
    IF n = 0 THEN {<<>>}
    ELSE LET shorter == SeqsUpTo(S, n - 1)
         IN  shorter \cup {Append(s, x) : s \in {t \in shorter : Len(t) = n - 1}, x \in S}

\* The element of a set of one element.
Only(S) == CHOOSE x \in S : TRUE

Repeat(x, n) == [i \in 1..n |-> x]

RECURSIVE Concat(_)
Concat(ss) == IF ss = <<>> THEN <<>> ELSE ss[1] \o Concat(Tail(ss))

RECURSIVE SumSeq(_)
SumSeq(s) == IF s = <<>> THEN 0 ELSE s[1] + SumSeq(Tail(s))

Min(a, b) == IF a < b THEN a ELSE b

----------------------------------------------------------------------------
(* Byte RLE: src/src/rle/byte.rs *)

MIN_REPEAT_LEN == 3

\* The longest encoded input handed to the byte RLE decoder.
MaxByteInput == 5

\* The byte values inputs are drawn from: both sides of the 127/128 control
\* boundary (the longest run, the longest literal) and a short literal.
ByteAlphabet == {127, 128, 254}

AwaitingControl == [tag |-> "AwaitingControl", n |-> 0]
AwaitingRepeated(n) == [tag |-> "AwaitingRepeated", n |-> n]
LiteralRemaining(n) == [tag |-> "LiteralRemaining", n |-> n]

\* u8::wrapping_neg
WrappingNegU8(b) == (256 - b) % 256

\* The state a control byte leads to.
ControlState_RunOff(b) ==
    IF b < 128 THEN AwaitingRepeated(b + MIN_REPEAT_LEN - 1)
    ELSE LiteralRemaining(WrappingNegU8(b))

ControlState(b) ==
    IF b < 128 THEN AwaitingRepeated(b + MIN_REPEAT_LEN)
    ELSE LiteralRemaining(WrappingNegU8(b))

\* The state after a literal is cut short by the end of the buffer.
LiteralCarry_Reset(literal_remaining, buf_remaining) == AwaitingControl

LiteralCarry(literal_remaining, buf_remaining) ==
    LiteralRemaining(literal_remaining - buf_remaining)

\* One ByteWriter::write(buf), from index i (1-based) of buf: the while loop.
RECURSIVE ByteWriteFrom(_, _, _, _)
ByteWriteFrom(state, out, buf, i) ==
    IF i > Len(buf) THEN [state |-> state, out |-> out, ret |-> Len(buf)]
    ELSE CASE state.tag = "AwaitingControl" ->
                ByteWriteFrom(ControlState(buf[i]), out, buf, i + 1)
           [] state.tag = "AwaitingRepeated" ->
                ByteWriteFrom(AwaitingControl, out \o Repeat(buf[i], state.n), buf, i + 1)
           [] state.tag = "LiteralRemaining" ->
                LET buf_remaining == Len(buf) - (i - 1)
                IN  IF buf_remaining >= state.n
                    THEN ByteWriteFrom(AwaitingControl,
                                       out \o SubSeq(buf, i, i + state.n - 1),
                                       buf, i + state.n)
                    ELSE ByteWriteFrom(LiteralCarry(state.n, buf_remaining),
                                       out \o SubSeq(buf, i, Len(buf)),
                                       buf, Len(buf) + 1)

ByteWrite(state, out, buf) == ByteWriteFrom(state, out, buf, 1)

\* ByteWriter::new
ByteIdle ==
    /\ bw_input = <<>>
    /\ bw_pos = 0
    /\ bw_state = AwaitingControl
    /\ bw_out = <<>>
    /\ bw_ret = -1
    /\ bw_buflen = -1
    /\ bw_cuts = {}

\* The caller hands the next k bytes of the input to ByteWriter::write.
BwWrite(k) ==
    /\ bw_pos + k <= Len(bw_input)
    /\ LET buf == SubSeq(bw_input, bw_pos + 1, bw_pos + k)
           r == ByteWrite(bw_state, bw_out, buf)
       IN  /\ bw_state' = r.state
           /\ bw_out' = r.out
           /\ bw_ret' = r.ret
    /\ bw_pos' = bw_pos + k
    /\ bw_buflen' = k
    /\ bw_cuts' = bw_cuts \cup {bw_pos + k}
    /\ UNCHANGED <<bw_input, byteOthers>>

NextByte == \E k \in 0..MaxByteInput + 1 : BwWrite(k)

----------------------------------------------------------------------------
(* The PRESENT writer, the column assemblers and Column::get:
   src/src/column.rs *)

\* The largest row count of a stripe.
MaxRowCount == 10

\* The longest decoded PRESENT stream, in bytes: one bit per row.
MaxPresentBytes == (MaxRowCount + 7) \div 8

\* Decoded PRESENT bytes: no row present, rows 0 and 2 present, all present.
PresentAlphabet == {0, 160, 255}

\* Decoded DATA bytes of a BOOLEAN column.
BoolAlphabet == {165, 255}

\* The longest decoded DATA stream of a BOOLEAN column, in bytes: one bit per
\* row.
MaxBoolBytes == (MaxRowCount + 7) \div 8

\* A byte that is never part of valid UTF-8.
BadUtf8Byte == 255

\* b & (1 << (7 - i)) != 0
BitSet(b, i) == (b \div (2 ^ (7 - i))) % 2 = 1

\* The bits of a byte string, MSB first, as a sequence of 0 and 1.
BitsOf(bytes) == [j \in 1..8 * Len(bytes) |->
                    IF BitSet(bytes[((j - 1) \div 8) + 1], (j - 1) % 8) THEN 1 ELSE 0]

CountOnes(bytes) == SumSeq(BitsOf(bytes))

(* PresentInfoWriter *)

PresentInfoWriterNew ==
    [null_runs |-> <<>>, current_total |-> 0, current_null_run_len |-> 0]

\* The else arm of the bit test: a present row closes the current null run.
PiwPresentBit_NoReset(w) ==
    [w EXCEPT !.null_runs = Append(@, w.current_null_run_len),
              !.current_total = @ + w.current_null_run_len + 1]

PiwPresentBit(w) ==
    [w EXCEPT !.null_runs = Append(@, w.current_null_run_len),
              !.current_total = @ + w.current_null_run_len + 1,
              !.current_null_run_len = 0]

RECURSIVE PiwWriteBits(_, _, _)
PiwWriteBits(w, b, i) ==
    IF i = 8 THEN w
    ELSE PiwWriteBits(IF ~BitSet(b, i)
                      THEN [w EXCEPT !.current_null_run_len = @ + 1]
                      ELSE PiwPresentBit(w),
                      b, i + 1)

\* PresentInfoWriter::write
RECURSIVE PresentInfoWriterWrite(_, _)
PresentInfoWriterWrite(w, buf) ==
    IF buf = <<>> THEN w
    ELSE PresentInfoWriterWrite(PiwWriteBits(w, buf[1], 0), Tail(buf))

\* The result of reading the PRESENT stream.  A null run is a u64; the one
\* value the model cannot hold as a number is the wrapped difference
\* 2^64 - k that a release build pushes when row_count < current_total: it
\* is kept as -k with wrapped = TRUE.
NoNullRuns == [tag |-> "None", null_runs |-> <<>>, wrapped |-> FALSE]
NullRunsPanic == [tag |-> "Panic", null_runs |-> <<>>, wrapped |-> FALSE]

\* PresentInfoWriter::into_inner: self.row_count - self.current_total in u64.
PresentInfoWriterIntoInner_NoTrailing(w, row_count, checks) ==
    [tag |-> "Some", null_runs |-> w.null_runs, wrapped |-> FALSE]

PresentInfoWriterIntoInner(w, row_count, checks) ==
    IF row_count >= w.current_total
    THEN [tag |-> "Some",
          null_runs |-> Append(w.null_runs, row_count - w.current_total),
          wrapped |-> FALSE]
    ELSE IF checks THEN NullRunsPanic
    ELSE [tag |-> "Some",
          null_runs |-> Append(w.null_runs, row_count - w.current_total),
          wrapped |-> TRUE]

(* Column *)

\* One record shape for the four variants; a variant leaves the fields of
\* the others empty.  nulls: Option<BitVec> is has_nulls and nulls.
NoColumn ==
    [kind |-> "None", row_count |-> 0, values |-> <<>>, has_nulls |-> FALSE,
     nulls |-> <<>>, data |-> <<>>, dictionary |-> <<>>, indices |-> <<>>]

ColumnPanic == [NoColumn EXCEPT !.kind = "Panic"]

ColumnU64(values, has_nulls, nulls) ==
    [NoColumn EXCEPT !.kind = "U64", !.values = values,
                     !.has_nulls = has_nulls, !.nulls = nulls]

ColumnBool(row_count, values, has_nulls, nulls) ==
    [NoColumn EXCEPT !.kind = "Bool", !.row_count = row_count, !.values = values,
                     !.has_nulls = has_nulls, !.nulls = nulls]

ColumnUtf8Direct(data, indices) ==
    [NoColumn EXCEPT !.kind = "Utf8Direct", !.data = data, !.indices = indices]

ColumnUtf8Dictionary(data, dictionary, indices) ==
    [NoColumn EXCEPT !.kind = "Utf8Dictionary", !.data = data,
                     !.dictionary = dictionary, !.indices = indices]

(* Value *)

ValueNull == [t |-> "Null", n |-> 0, s |-> <<>>]
ValueBool(b) == [t |-> "Bool", n |-> IF b THEN 1 ELSE 0, s |-> <<>>]
ValueU64(n) == [t |-> "U64", n |-> n, s |-> <<>>]
ValueUtf8(bytes) == [t |-> "Utf8", n |-> 0, s |-> bytes]

GetNone == [tag |-> "None", value |-> ValueNull]
GetPanic == [tag |-> "Panic", value |-> ValueNull]
GetSome(v) == [tag |-> "Some", value |-> v]

\* std::str::from_utf8 on the bytes the model uses: ASCII and BadUtf8Byte.
Utf8Valid(bytes) == \A i \in 1..Len(bytes) : bytes[i] < 128

\* std::str::from_utf8(&bytes[start..start + len]).unwrap(); a slice out of
\* range panics, and so does unwrap on invalid UTF-8.  A start or len below
\* zero stands for the usize that is 2^64 more: the end of the range is then
\* beyond the bytes or, the sum wrapped, before its start (the sum panics in
\* a build with overflow checks), and the slice panics either way.
Utf8Slice(bytes, start, len) ==
    IF start < 0 \/ len < 0 \/ start + len > Len(bytes) THEN GetPanic
    ELSE LET slice == SubSeq(bytes, start + 1, start + len)
         IN  IF Utf8Valid(slice) THEN GetSome(ValueUtf8(slice)) ELSE GetPanic

GetUtf8Direct(col, row) ==
    IF row >= Len(col.indices) THEN GetPanic            \* indices[row]
    ELSE LET start == col.indices[row + 1][1]
             len == col.indices[row + 1][2]
         IN  IF start = -1 THEN GetSome(ValueNull)
             ELSE Utf8Slice(col.data, start, len)

GetUtf8Dictionary(col, row) ==
    IF row >= Len(col.data) THEN GetPanic               \* data[row]
    ELSE LET code == col.data[row + 1]
         IN  IF code = -1 THEN GetSome(ValueNull)
             ELSE IF code < 0 \/ code >= Len(col.indices)
                  THEN GetPanic                          \* indices[code as usize]
             ELSE Utf8Slice(col.dictionary,
                            col.indices[code + 1][1], col.indices[code + 1][2])

\* The Bool arm with the bound taken from the value vector.
GetBool_ByLen(col, row) ==
    IF row < Len(col.values)
    THEN IF col.has_nulls /\ row >= Len(col.nulls) THEN GetPanic
         ELSE IF col.has_nulls /\ col.nulls[row + 1] THEN GetSome(ValueNull)
         ELSE GetSome(ValueBool(col.values[row + 1]))
    ELSE GetNone

GetBool(col, row) ==
    IF row < col.row_count
    THEN IF col.has_nulls /\ row >= Len(col.nulls) THEN GetPanic      \* nulls[row]
         ELSE IF col.has_nulls /\ col.nulls[row + 1] THEN GetSome(ValueNull)
         ELSE IF row >= Len(col.values) THEN GetPanic                 \* values[row]
         ELSE GetSome(ValueBool(col.values[row + 1]))
    ELSE GetNone

GetU64(col, row) ==
    IF row < Len(col.values)
    THEN IF col.has_nulls /\ row >= Len(col.nulls) THEN GetPanic      \* nulls[row]
         ELSE IF col.has_nulls /\ col.nulls[row + 1] THEN GetSome(ValueNull)
         ELSE GetSome(ValueU64(col.values[row + 1]))
    ELSE GetNone

\* Column::get(row), row counted from 0.
ColumnGet(col, row) ==
    CASE col.kind = "Bool" -> GetBool(col, row)
      [] col.kind = "U64" -> GetU64(col, row)
      [] col.kind = "Utf8Dictionary" -> GetUtf8Dictionary(col, row)
      [] col.kind = "Utf8Direct" -> GetUtf8Direct(col, row)

\* The number of rows a column holds.
ColumnRowCount(col) ==
    CASE col.kind = "Bool" -> col.row_count
      [] col.kind = "U64" -> Len(col.values)
      [] col.kind = "Utf8Dictionary" -> Len(col.data)
      [] col.kind = "Utf8Direct" -> Len(col.indices)
      [] OTHER -> 0

(* The assemblers *)

\* The loop of the assemblers with the value pushed before its null run.
RECURSIVE Weave_ValueFirst(_, _, _, _)
Weave_ValueFirst(values, null_runs, filler, k) ==
    IF k > Len(null_runs) THEN <<>>
    ELSE (IF k <= Len(values) THEN <<values[k]>> ELSE <<>>)
           \o Repeat(filler, null_runs[k])
           \o Weave_ValueFirst(values, null_runs, filler, k + 1)

\* The loop shared by the three make_*_column functions: for every null run,
\* null_run fillers, then the value at that present index when there is one.
\* k counts from 1.
RECURSIVE Weave(_, _, _, _)
Weave(values, null_runs, filler, k) ==
    IF k > Len(null_runs) THEN <<>>
    ELSE Repeat(filler, null_runs[k])
           \o (IF k <= Len(values) THEN <<values[k]>> ELSE <<>>)
           \o Weave(values, null_runs, filler, k + 1)

\* The null bit vector, were nulls.push(true) left out of the loop
WeaveNulls_ValuesOnly(values, null_runs) == [i \in 1..Len(values) |-> FALSE]

\* The null bit vector built beside the values.
WeaveNulls(values, null_runs) ==
    Weave([i \in 1..Len(values) |-> FALSE], null_runs, TRUE, 1)

\* A wrapped null run asks for 2^64 - k pushes: the process dies of memory
\* exhaustion (or of the capacity overflow in Vec::with_capacity).
\* Column::make_u64_column(values, &null_runs.unwrap_or_default())
MakeU64Column(values, ni) ==
    IF ni.null_runs = <<>> THEN ColumnU64(values, FALSE, <<>>)
    ELSE IF ni.wrapped THEN ColumnPanic
    ELSE ColumnU64(Weave(values, ni.null_runs, 0, 1), TRUE,
                   WeaveNulls(values, ni.null_runs))

\* The index loop of make_utf8_dictionary_column: (start, length) for every
\* dictionary entry.
RECURSIVE DictionaryIndices(_, _)
DictionaryIndices(lengths, total_inc) ==
    IF lengths = <<>> THEN <<>>
    ELSE <<(<<total_inc, lengths[1]>>)>>
           \o DictionaryIndices(Tail(lengths), total_inc + lengths[1])

\* The index loop of make_utf8_direct_column, were total_inc left at the
\* start of the DATA bytes
RECURSIVE PrefixIndices_NoAdvance(_, _)
PrefixIndices_NoAdvance(lengths, total_inc) ==
    IF lengths = <<>> THEN <<>>
    ELSE IF lengths[1] = -1
         THEN <<(<<-1, 0>>)>> \o PrefixIndices_NoAdvance(Tail(lengths), total_inc)
         ELSE <<(<<total_inc, lengths[1]>>)>>
                \o PrefixIndices_NoAdvance(Tail(lengths), total_inc)

\* The index loop of make_utf8_direct_column over new_lengths, the LENGTH
\* values cast to i64 with -1 for every null row: a length of -1 gives the
\* entry (-1, 0), any other (total_inc, length as u64).  A LENGTH value of
\* 2^64 - k is the i64 -k, the number that stands for it here.
RECURSIVE PrefixIndices(_, _)
PrefixIndices(lengths, total_inc) ==
    IF lengths = <<>> THEN <<>>
    ELSE IF lengths[1] = -1
         THEN <<(<<-1, 0>>)>> \o PrefixIndices(Tail(lengths), total_inc)
         ELSE <<(<<total_inc, lengths[1]>>)>>
                \o PrefixIndices(Tail(lengths), total_inc + lengths[1])

\* Column::make_utf8_dictionary_column
MakeUtf8DictionaryColumn(ni, data, dictionary_bytes, lengths) ==
    IF ni.tag = "Some" /\ ni.wrapped THEN ColumnPanic
    ELSE ColumnUtf8Dictionary(
            IF ni.tag = "Some" THEN Weave(data, ni.null_runs, -1, 1) ELSE data,
            dictionary_bytes,
            DictionaryIndices(lengths, 0))

\* Column::make_utf8_direct_column
MakeUtf8DirectColumn(ni, data_bytes, lengths) ==
    IF ni.tag = "Some" /\ ni.wrapped THEN ColumnPanic
    ELSE ColumnUtf8Direct(
            data_bytes,
            PrefixIndices(IF ni.tag = "Some" THEN Weave(lengths, ni.null_runs, -1, 1)
                          ELSE lengths, 0))

(* BoolWriter *)

\* PresentInfo::null_run
NullRun(ni, index) ==
    IF ni.tag # "Some" THEN 0
    ELSE IF index < Len(ni.null_runs) THEN ni.null_runs[index + 1] ELSE 0

\* BoolWriter::new
BoolWriterNew(row_count, ni) ==
    [row_count |-> row_count, present_info |-> ni, values |-> <<>>,
     has_nulls |-> ni.tag = "Some", nulls |-> <<>>,
     current_index |-> 0, current_present_index |-> 0, crashed |-> FALSE]

\* One iteration of the bit loop of BoolWriter::write.
BoolWriterBit(w, value) ==
    LET null_run == NullRun(w.present_info, w.current_present_index)
    IN  IF w.crashed THEN w
        ELSE IF w.has_nulls /\ null_run < 0 THEN [w EXCEPT !.crashed = TRUE]
        ELSE IF w.has_nulls
        THEN [w EXCEPT !.nulls = @ \o Repeat(TRUE, null_run) \o <<FALSE>>,
                       !.values = @ \o Repeat(FALSE, null_run) \o <<value>>,
                       !.current_index = @ + null_run + 1,
                       !.current_present_index = @ + 1]
        ELSE [w EXCEPT !.values = Append(@, value),
                       !.current_index = @ + 1,
                       !.current_present_index = @ + 1]

RECURSIVE BoolWriterBits(_, _, _)
BoolWriterBits(w, b, i) ==
    IF i = 8 THEN w ELSE BoolWriterBits(BoolWriterBit(w, BitSet(b, i)), b, i + 1)

\* BoolWriter::write
RECURSIVE BoolWriterWrite(_, _)
BoolWriterWrite(w, buf) ==
    IF buf = <<>> THEN w
    ELSE BoolWriterWrite(BoolWriterBits(w, buf[1], 0), Tail(buf))

\* finish, were the last null run not pushed
BoolWriterFinish_NoLastRun(w) ==
    IF w.crashed THEN ColumnPanic
    ELSE ColumnBool(w.row_count, w.values, w.has_nulls, IF w.has_nulls THEN w.nulls ELSE <<>>)

\* BoolWriter::finish
BoolWriterFinish(w) ==
    LET null_run == NullRun(w.present_info, w.current_present_index)
    IN  IF w.crashed \/ (w.has_nulls /\ null_run < 0) THEN ColumnPanic
        ELSE ColumnBool(w.row_count, w.values, w.has_nulls,
                        IF w.has_nulls THEN w.nulls \o Repeat(TRUE, null_run)
                        ELSE <<>>)

(* Reading one column: the part of OrcFile::read_column after decompression
   and byte RLE decoding *)

ColKinds == {"Bool", "U64", "Utf8Direct", "Utf8Dictionary"}

\* n ASCII letters.
Text(n) == [i \in 1..n |-> 96 + i]

\* As many entries as there are present rows, one fewer, or one more.
Around(n) == {m \in {n - 1, n, n + 1} : m >= 0}

ColInput(kind, row_count, has_present, present, u64s, lengths, bytes) ==
    [kind |-> kind, row_count |-> row_count, has_present |-> has_present,
     present |-> present, u64s |-> u64s, lengths |-> lengths, bytes |-> bytes]

\* LENGTH values of 2^64 - 1 and 2^64 - 2, the numbers -1 and -2.
HugeLengths == {-1, -2}

\* v LENGTH values, the first or the last of them huge.
LengthsWithHuge(v) ==
    IF v = 0 THEN {}
    ELSE {[i \in 1..v |-> IF i = j THEN h ELSE i % 3] : j \in {1, v}, h \in HugeLengths}

\* v dictionary codes, the first of them 2^64 - 1 or 2^64 - 2.
CodesWithHuge(v) ==
    IF v = 0 THEN {}
    ELSE {[i \in 1..v |-> IF i = 1 THEN h ELSE i % 2] : h \in HugeLengths}

\* The decoded streams of a column: DATA (and LENGTH, DICTIONARY_DATA) for the
\* number of present rows p, well formed or not.
ColData(kind, p) ==
    CASE kind = "U64" ->
            {[u64s |-> [i \in 1..v |-> 10 + i], lengths |-> <<>>, bytes |-> <<>>] :
                v \in Around(p)}
      [] kind = "Bool" ->
            {[u64s |-> <<>>, lengths |-> <<>>, bytes |-> b] :
                b \in SeqsUpTo(BoolAlphabet, MaxBoolBytes)}
      [] kind = "Utf8Direct" ->
            UNION {LET lengths == [i \in 1..v |-> i % 3]
                       total == SumSeq(lengths)
                   IN  {[u64s |-> <<>>, lengths |-> lengths, bytes |-> b] :
                          b \in {Text(total),
                                 SubSeq(Text(total), 1, total - 1),
                                 [i \in 1..total |-> IF i = 1 THEN BadUtf8Byte ELSE 96 + i]}} :
                   v \in Around(p)}
            \cup {[u64s |-> <<>>, lengths |-> lengths, bytes |-> Text(3)] :
                     lengths \in LengthsWithHuge(p)}
      [] kind = "Utf8Dictionary" ->
            {[u64s |-> [i \in 1..v |-> i % 2], lengths |-> l, bytes |-> Text(SumSeq(l))] :
                v \in Around(p), l \in {<<1, 2>>, <<2>>}}
            \cup {[u64s |-> codes, lengths |-> <<1, 2>>, bytes |-> Text(3)] :
                     codes \in CodesWithHuge(p)}

ColInputs ==
    UNION {UNION {
        {ColInput(kind, row_count, FALSE, <<>>, d.u64s, d.lengths, d.bytes) :
            d \in ColData(kind, row_count)}
        \cup
        UNION {{ColInput(kind, row_count, TRUE, present, d.u64s, d.lengths, d.bytes) :
                    d \in ColData(kind, CountOnes(present))} :
               present \in SeqsUpTo(PresentAlphabet, MaxPresentBytes)} :
        row_count \in 0..MaxRowCount} : kind \in ColKinds}

NoInput == ColInput("None", 0, FALSE, <<>>, <<>>, <<>>, <<>>)
NoGet == [row |-> -1, res |-> GetNone]

ColIdle ==
    /\ c_in = NoInput
    /\ c_phase = "idle"
    /\ c_piw = PresentInfoWriterNew
    /\ c_pos = 0
    /\ c_cuts = {}
    /\ c_null = NoNullRuns
    /\ c_boolw = BoolWriterNew(0, NoNullRuns)
    /\ c_col = NoColumn
    /\ c_get = NoGet

\* read_column is entered for a column; read_null_runs has made its
\* PresentInfoWriter when the column has a PRESENT stream.
ColStart ==
    /\ c_in \in ColInputs
    /\ c_phase = IF c_in.has_present THEN "present" ELSE "data"
    /\ c_piw = PresentInfoWriterNew
    /\ c_pos = 0
    /\ c_cuts = {}
    /\ c_null = NoNullRuns
    /\ c_boolw = BoolWriterNew(c_in.row_count, NoNullRuns)
    /\ c_col = NoColumn
    /\ c_get = NoGet


\* The next k decoded PRESENT bytes reach PresentInfoWriter::write.
PresentWrite(k) ==
    /\ c_phase = "present"
    /\ c_pos + k <= Len(c_in.present)
    /\ c_piw' = PresentInfoWriterWrite(c_piw, SubSeq(c_in.present, c_pos + 1, c_pos + k))
    /\ c_pos' = c_pos + k
    /\ c_cuts' = c_cuts \cup {c_pos + k}
    /\ UNCHANGED <<c_in, c_phase, c_null, c_boolw, c_col, c_get, colOthers>>

\* The PRESENT stream is drained: read_null_runs returns into_inner().
PresentFinish ==
    /\ c_phase = "present"
    /\ c_pos = Len(c_in.present)
    /\ LET ni == PresentInfoWriterIntoInner(c_piw, c_in.row_count, overflow_checks)
       IN  /\ c_null' = ni
           /\ c_phase' = IF ni.tag = "Panic" THEN "crashed" ELSE "data"
           /\ c_boolw' = BoolWriterNew(c_in.row_count, ni)
    /\ c_pos' = 0
    /\ UNCHANGED <<c_in, c_piw, c_cuts, c_col, c_get, colOthers>>

\* The next k decoded DATA bytes of a BOOLEAN column reach BoolWriter::write.
BoolWrite(k) ==
    /\ c_phase = "data"
    /\ c_in.kind = "Bool"
    /\ c_pos + k <= Len(c_in.bytes)
    /\ c_boolw' = BoolWriterWrite(c_boolw, SubSeq(c_in.bytes, c_pos + 1, c_pos + k))
    /\ c_pos' = c_pos + k
    /\ UNCHANGED <<c_in, c_phase, c_piw, c_cuts, c_null, c_col, c_get, colOthers>>

\* The DATA stream of a BOOLEAN column is drained: BoolWriter::finish.
BoolFinish ==
    /\ c_phase = "data"
    /\ c_in.kind = "Bool"
    /\ c_pos = Len(c_in.bytes)
    /\ LET col == BoolWriterFinish(c_boolw)
       IN  /\ c_col' = col
           /\ c_phase' = IF col.kind = "Panic" THEN "crashed" ELSE "get"
    /\ UNCHANGED <<c_in, c_piw, c_pos, c_cuts, c_null, c_boolw, c_get, colOthers>>

\* The assembler read_column calls for the other three column kinds.
MakeColumnOf(in, ni) ==
    CASE in.kind = "U64" -> MakeU64Column(in.u64s, ni)
      [] in.kind = "Utf8Dictionary" ->
            MakeUtf8DictionaryColumn(ni, in.u64s, in.bytes, in.lengths)
      [] in.kind = "Utf8Direct" -> MakeUtf8DirectColumn(ni, in.bytes, in.lengths)

MakeColumn ==
    /\ c_phase = "data"
    /\ c_in.kind # "Bool"
    /\ LET col == MakeColumnOf(c_in, c_null)
       IN  /\ c_col' = col
           /\ c_phase' = IF col.kind = "Panic" THEN "crashed" ELSE "get"
    /\ UNCHANGED <<c_in, c_piw, c_pos, c_cuts, c_null, c_boolw, c_get, colOthers>>

\* A caller asks the column for a row.
GetRow(row) ==
    /\ c_phase = "get"
    /\ row <= ColumnRowCount(c_col) + 1
    /\ LET res == ColumnGet(c_col, row)
       IN  /\ c_get' = [row |-> row, res |-> res]
           /\ c_phase' = IF res.tag = "Panic" THEN "crashed" ELSE "get"
    /\ UNCHANGED <<c_in, c_piw, c_pos, c_cuts, c_null, c_boolw, c_col, colOthers>>

NextColumn ==
    \/ \E k \in 0..MaxPresentBytes + 1 : PresentWrite(k)
    \/ PresentFinish
    \/ \E k \in 0..MaxBoolBytes + 1 : BoolWrite(k)
    \/ BoolFinish
    \/ MakeColumn
    \/ \E row \in 0..2 * 8 * (MaxPresentBytes + 1) : GetRow(row)
----------------------------------------------------------------------------
(* The row iterator: src/parser.rs, MappedRows *)

\* The most stripes a file has.
MaxStripes == 2

\* The most rows a stripe has.
MaxStripeRows == 2

\* The column ids of the file's stripes; every other index is out of range.
FileColumnIds == {0, 1}

\* The most column indices a caller asks for: as many as the file has columns.
MaxSelected == Cardinality(FileColumnIds)

\* The mapping functions a caller supplies: one that never fails, and one
\* that fails on every row whose first value is odd or missing.
UserFns == {"AlwaysOk", "ErrOnOdd"}

\* What a stripe's streams hold for one column: one integer per row, one
\* integer too few ("short"), one too many ("long"), or bytes the integer
\* decoder rejects ("corrupt").
NoDefect == [kind |-> "none", stripe |-> 0, column |-> 0]
Defects(stripes) ==
    {NoDefect} \cup
    {[kind |-> k, stripe |-> s, column |-> c] :
        k \in {"short", "long", "corrupt"}, s \in 0..Len(stripes) - 1, c \in FileColumnIds}

\* A file: the row count of every stripe (StripeInfo.row_count) and at most
\* one column of one stripe whose streams are not what the footer promises.
Files ==
    UNION {{[stripes |-> st, defect |-> d] : d \in Defects(st)} :
              st \in SeqsUpTo(0..MaxStripeRows, MaxStripes)}

DefectAt(file, s, c, kind) ==
    file.defect = [kind |-> kind, stripe |-> s, column |-> c]

\* The integer in row r of column c of stripe s.
CellValue(s, c, r) == 100 * s + 10 * c + r

\* read_u64s for the DATA stream of column c of stripe s.
ColumnValues(file, s, c) ==
    LET row_count == file.stripes[s + 1]
        n == IF DefectAt(file, s, c, "short") /\ row_count > 0 THEN row_count - 1
             ELSE IF DefectAt(file, s, c, "long") THEN row_count + 1
             ELSE row_count
    IN  [i \in 1..n |-> CellValue(s, c, i - 1)]

\* Errors (src/lib.rs / parser.rs Error), as far as the iterator makes them.
NoError == [kind |-> "none", stripe_index |-> 0, column_index |-> 0, row_index |-> 0]
InvalidColumnIndex(i) == [NoError EXCEPT !.kind = "InvalidColumnIndex", !.column_index = i]
InvalidIntegerEncoding == [NoError EXCEPT !.kind = "InvalidIntegerEncoding"]
InvalidValue(s, c, r) ==
    [kind |-> "InvalidValue", stripe_index |-> s, column_index |-> c, row_index |-> r]

\* OrcFile::read_column(stripe, column_id) for an integer column without a
\* PRESENT stream.
ReadColumn(file, s, column_id) ==
    IF column_id \notin FileColumnIds
    THEN [tag |-> "Err", error |-> InvalidColumnIndex(column_id), column |-> NoColumn]
    ELSE IF DefectAt(file, s, column_id, "corrupt")
    THEN [tag |-> "Err", error |-> InvalidIntegerEncoding, column |-> NoColumn]
    ELSE [tag |-> "Ok", error |-> NoError,
          column |-> MakeU64Column(ColumnValues(file, s, column_id), NoNullRuns)]

\* The items of the iterator.  A user error carries the values the mapping
\* function was called with, for the record.
ItemOk(values) == [tag |-> "Ok", values |-> values, error |-> NoError]
ItemUserErr(values) == [tag |-> "UserErr", values |-> values, error |-> NoError]
ItemErr(error) == [tag |-> "Err", values |-> <<>>, error |-> error]
ItemNone == [tag |-> "None", values |-> <<>>, error |-> NoError]

\* (self.f)(&values)
UserFn(f, values) ==
    IF f = "ErrOnOdd" /\ (values = <<>> \/ values[1].n % 2 = 1)
    THEN ItemUserErr(values)
    ELSE ItemOk(values)

\* MappedRows::new
MappedRowsNew == [current_stripe |-> 0, current_row |-> 0, data |-> <<>>]

\* "Unrecoverable error": self.current_stripe = self.stripe_info.len()
Unrecoverable_Stay(it, file) == it

Unrecoverable(it, file) == [it EXCEPT !.current_stripe = Len(file.stripes)]

\* The loop over self.columns on entering a stripe; k counts from 1.
RECURSIVE ReadColumns(_, _, _, _)
ReadColumns(it, file, columns, k) ==
    IF k > Len(columns) THEN [tag |-> "Ok", it |-> it, error |-> NoError]
    ELSE LET r == ReadColumn(file, it.current_stripe, columns[k])
         IN  IF r.tag = "Err"
             THEN [tag |-> "Err", it |-> Unrecoverable(it, file), error |-> r.error]
             ELSE ReadColumns([it EXCEPT !.data = Append(@, r.column)], file, columns, k + 1)

\* The loop over self.data.iter().zip(&self.columns); k counts from 1.
RECURSIVE GetValues(_, _, _, _, _)
GetValues(it, file, columns, k, values) ==
    IF k > Min(Len(it.data), Len(columns))
    THEN [tag |-> "Ok", it |-> it, values |-> values, error |-> NoError]
    ELSE LET got == ColumnGet(it.data[k], it.current_row)
         IN  CASE got.tag = "Some" ->
                    GetValues(it, file, columns, k + 1, Append(values, got.value))
               [] got.tag = "None" ->
                    [tag |-> "Err", it |-> Unrecoverable(it, file), values |-> values,
                     error |-> InvalidValue(it.current_stripe, columns[k], it.current_row)]
               [] OTHER ->
                    [tag |-> "Panic", it |-> it, values |-> values, error |-> NoError]

\* The stripe is used up: self.data.clear(); current_stripe += 1; current_row = 0
SkipStripe_NoClear(it) ==
    [it EXCEPT !.current_stripe = @ + 1, !.current_row = 0]

SkipStripe(it) ==
    [current_stripe |-> it.current_stripe + 1, current_row |-> 0, data |-> <<>>]

\* self.current_row += 1; Some((self.f)(&values))
Yield_StopOnErr(it, file, f, values) ==
    [it |-> IF UserFn(f, values).tag = "UserErr" THEN Unrecoverable(it, file)
            ELSE [it EXCEPT !.current_row = @ + 1],
     item |-> UserFn(f, values)]

Yield(it, file, f, values) ==
    [it |-> [it EXCEPT !.current_row = @ + 1], item |-> UserFn(f, values)]

\* MappedRows::next: the iterator afterwards and what the call returns.
RECURSIVE MappedRowsNext(_, _, _, _)
MappedRowsNext(it, file, columns, f) ==
    IF it.current_stripe >= Len(file.stripes)
    THEN [it |-> it, item |-> ItemNone]
    ELSE IF it.current_row >= file.stripes[it.current_stripe + 1]
    THEN MappedRowsNext(SkipStripe(it), file, columns, f)
    ELSE LET entered == IF it.current_row = 0
                        THEN ReadColumns(it, file, columns, 1)
                        ELSE [tag |-> "Ok", it |-> it, error |-> NoError]
         IN  IF entered.tag = "Err"
             THEN [it |-> entered.it, item |-> ItemErr(entered.error)]
             ELSE LET got == GetValues(entered.it, file, columns, 1, <<>>)
                  IN  CASE got.tag = "Ok" -> Yield(got.it, file, f, got.values)
                        [] got.tag = "Err" -> [it |-> got.it, item |-> ItemErr(got.error)]
                        [] OTHER -> [it |-> got.it, item |-> [ItemNone EXCEPT !.tag = "Panic"]]

\* How many times the caller goes on calling next after it has returned None.
MaxNones == 2

RowsIdle ==
    /\ r_file = [stripes |-> <<>>, defect |-> NoDefect]
    /\ r_columns = <<>>
    /\ r_f = "AlwaysOk"
    /\ r_it = MappedRowsNew
    /\ r_items = <<>>
    /\ r_nones = 0

\* OrcFile::map_rows(columns, f)
RowsStart ==
    /\ r_file \in Files
    /\ r_columns \in SeqsUpTo(FileColumnIds \cup {Cardinality(FileColumnIds)}, MaxSelected)
    /\ r_f \in UserFns
    /\ r_it = MappedRowsNew
    /\ r_items = <<>>
    /\ r_nones = 0

\* The caller calls next and gets an item.
RowsNextSome ==
    LET r == MappedRowsNext(r_it, r_file, r_columns, r_f)
    IN  /\ r.item.tag \in {"Ok", "UserErr", "Err"}
        /\ r_it' = r.it
        /\ r_items' = Append(r_items, r.item)
        /\ UNCHANGED <<r_file, r_columns, r_f, r_nones, rowOthers>>

\* The caller calls next and gets None.
RowsNextNone ==
    LET r == MappedRowsNext(r_it, r_file, r_columns, r_f)
    IN  /\ r.item.tag = "None"
        /\ r_nones < MaxNones
        /\ r_it' = r.it
        /\ r_nones' = r_nones + 1
        /\ UNCHANGED <<r_file, r_columns, r_f, r_items, rowOthers>>

NextRows == RowsNextSome \/ RowsNextNone
----------------------------------------------------------------------------
(* 64-bit machine integers.  A u64 is four 16-bit limbs, most significant
   first; an i64 is the same 64 bits read in two's complement (Rust's
   `as i64` / `as u64`). *)

Limb == 65536

U64Of(n) == <<0, 0, n \div Limb, n % Limb>>

U64Zero == U64Of(0)

\* Bit i of u, bit 0 the least significant.
Bit(u, i) == (u[4 - (i \div 16)] \div (2 ^ (i % 16))) % 2

\* u with its limbs moved q places up (q > 0) or down (q < 0).
MoveLimbs(u, q) == [j \in 1..4 |-> IF j + q \in 1..4 THEN u[j + q] ELSE 0]

\* u << r for 0 <= r < 16, limb by limb with the bits carried up.
ShlBits(u, r) ==
    LET m == 2 ^ r
        top == 2 ^ (16 - r)
    IN  [j \in 1..4 |-> (u[j] % top) * m + (IF j < 4 THEN u[j + 1] \div top ELSE 0)]

\* u >> r for 0 <= r < 16, limb by limb with the bits carried down.
ShrBits(u, r) ==
    LET m == 2 ^ r
        top == 2 ^ (16 - r)
    IN  [j \in 1..4 |-> u[j] \div m + (IF j > 1 THEN (u[j - 1] % m) * top ELSE 0)]

\* u << k and u >> k for 0 <= k: bits shifted out are lost.
Shl(u, k) == IF k >= 64 THEN U64Zero ELSE MoveLimbs(ShlBits(u, k % 16), k \div 16)

Shr(u, k) == IF k >= 64 THEN U64Zero ELSE MoveLimbs(ShrBits(u, k % 16), -(k \div 16))

\* a | b and a ^ b on limbs, bit by bit from the least significant.
RECURSIVE OrLimb(_, _)
OrLimb(a, b) ==
    IF a = 0 THEN b
    ELSE IF b = 0 THEN a
    ELSE (IF (a % 2) + (b % 2) > 0 THEN 1 ELSE 0) + 2 * OrLimb(a \div 2, b \div 2)

RECURSIVE XorLimb(_, _)
XorLimb(a, b) ==
    IF a = 0 THEN b
    ELSE IF b = 0 THEN a
    ELSE (((a % 2) + (b % 2)) % 2) + 2 * XorLimb(a \div 2, b \div 2)

BitOr(u, v) == [j \in 1..4 |-> OrLimb(u[j], v[j])]

BitXor(u, v) == [j \in 1..4 |-> XorLimb(u[j], v[j])]

BitNot(u) == [j \in 1..4 |-> Limb - 1 - u[j]]

\* u + v in 64 bits, and the carry out of bit 63.
AddCarry(u, v) ==
    LET s4 == u[4] + v[4]
        s3 == u[3] + v[3] + s4 \div Limb
        s2 == u[2] + v[2] + s3 \div Limb
        s1 == u[1] + v[1] + s2 \div Limb
    IN  [v |-> <<s1 % Limb, s2 % Limb, s3 % Limb, s4 % Limb>>, carry |-> s1 \div Limb]

\* Two's complement negation.
Neg(u) == AddCarry(BitNot(u), U64Of(1)).v

\* The sign of u as i64.
IsNegative(u) == u[1] >= Limb \div 2

\* n as i64, for a small integer n of either sign.
I64Of(n) == IF n >= 0 THEN U64Of(n) ELSE Neg(U64Of(-n))

\* An arithmetic result: the wrapped value and whether the exact result
\* does not fit the type.
Arith(v, overflow) == [v |-> v, overflow |-> overflow]

\* a + b on u64.
U64Add(a, b) == LET s == AddCarry(a, b) IN Arith(s.v, s.carry = 1)

\* a + b on i64.
I64Add(a, b) ==
    LET s == AddCarry(a, b).v
    IN  Arith(s, IsNegative(a) = IsNegative(b) /\ IsNegative(s) # IsNegative(a))

\* -a on i64: overflows for i64::MIN only.
I64Neg(a) == Arith(Neg(a), IsNegative(a) /\ Neg(a) = a)

\* a - b on i64.
I64Sub(a, b) ==
    LET d == AddCarry(a, Neg(b)).v
    IN  Arith(d, IsNegative(a) # IsNegative(b) /\ IsNegative(d) # IsNegative(a))

\* a * 2 on i64.
I64Double(a) == I64Add(a, a)

\* a * 256 on u64.
U64Mul256(a) == Arith(Shl(a, 8), a[1] >= 256)

\* i64::signum
Signum(a) == IF a = U64Zero THEN 0 ELSE IF IsNegative(a) THEN -1 ELSE 1

\* s * a on i64 for s in {-1, 0, 1}.
I64MulSign(s, a) ==
    CASE s = 0 -> Arith(U64Zero, FALSE)
      [] s = 1 -> Arith(a, FALSE)
      [] OTHER -> I64Neg(a)
----------------------------------------------------------------------------
(* Varints (the integer_encoding crate, VarInt::decode_var) *)

NoVar == [ok |-> FALSE, value |-> U64Zero, read_len |-> 0]

\* The loop of u64::decode_var: seven bits a byte, least significant group
\* first, at most ten bytes; i is the index of the byte looked at.
RECURSIVE DecodeVarLoop(_, _, _, _)
DecodeVarLoop(src, i, result, shift) ==
    IF i > Len(src) THEN NoVar
    ELSE LET b == src[i]
             r == BitOr(result, Shl(U64Of(b % 128), shift))
             sh == shift + 7
         IN  IF b < 128 THEN [ok |-> TRUE, value |-> r, read_len |-> sh \div 7]
             ELSE IF sh > 9 * 7 THEN NoVar
             ELSE DecodeVarLoop(src, i + 1, r, sh)

\* u64::decode_var(src)
DecodeVarU64(src) == DecodeVarLoop(src, 1, U64Zero, 0)

\* Zigzag: (n >> 1) ^ -(n & 1)
ZigZagDecode(u) == BitXor(Shr(u, 1), Neg(U64Of(Bit(u, 0))))

\* i64::decode_var(src)
DecodeVarI64(src) ==
    LET d == DecodeVarU64(src)
    IN  IF d.ok THEN [d EXCEPT !.value = ZigZagDecode(d.value)] ELSE NoVar

----------------------------------------------------------------------------
(* Integer RLE v1: src/rle/intv1.rs *)

V1_MIN_REPEAT_LEN == 3

\* What append_next_u64s returns and leaves in current_values.  "Panic" is a
\* panic of the thread, "Abort" a loop that only memory exhaustion ends.
Appended(values, read_len) == [tag |-> "Some", values |-> values, read_len |-> read_len]
AppendNone(values) == [tag |-> "None", values |-> values, read_len |-> 0]
AppendPanic(values) == [tag |-> "Panic", values |-> values, read_len |-> 0]
AppendAbort(values) == [tag |-> "Abort", values |-> values, read_len |-> 0]

\* second as i8, as an integer
AsI8(b) == IF b < 128 THEN b ELSE b - 256

\* (last_value as i64 + delta as i64) as u64
V1Step(last_value, delta, checks) ==
    LET s == I64Add(last_value, I64Of(delta))
    IN  [v |-> s.v, panic |-> s.overflow /\ checks]

\* One turn of the loop: push(last_value); last_value = last_value + delta
\* A panic ends the loop: the turns after it do nothing.
V1RunTurn(run, delta, checks) ==
    IF run.panic THEN run
    ELSE LET s == V1Step(run.last_value, delta, checks)
         IN  [last_value |-> s.v, values |-> Append(run.values, run.last_value),
              panic |-> s.panic]

\* for _ in 0..len { ... }: n turns, as the first n \div 2 turns and then the
\* others.
RECURSIVE V1RunLoop(_, _, _, _)
V1RunLoop(run, delta, n, checks) ==
    IF n = 0 THEN run
    ELSE IF n = 1 THEN V1RunTurn(run, delta, checks)
    ELSE Only({V1RunLoop(half, delta, n - n \div 2, checks) :
                  half \in {V1RunLoop(run, delta, n \div 2, checks)}})

\* The arm, were it to return read_len + 3
V1Run_OneMore(bytes, current_values, checks) ==
    LET len == bytes[1] + V1_MIN_REPEAT_LEN
    IN  IF Len(bytes) < 2 THEN AppendNone(current_values)
        ELSE LET delta == AsI8(bytes[2])
                 d == DecodeVarU64(SubSeq(bytes, 3, Len(bytes)))
             IN  IF ~d.ok THEN AppendNone(current_values)
                 ELSE LET r == V1RunLoop([last_value |-> d.value, values |-> current_values,
                                          panic |-> FALSE], delta, len, checks)
                      IN  IF r.panic THEN AppendPanic(r.values)
                          ELSE Appended(r.values, d.read_len + 3)

\* The arm of append_next_u64s for first < 128.
V1Run(bytes, current_values, checks) ==
    LET len == bytes[1] + V1_MIN_REPEAT_LEN
    IN  IF Len(bytes) < 2 THEN AppendNone(current_values)
        ELSE LET delta == AsI8(bytes[2])
                 d == DecodeVarU64(SubSeq(bytes, 3, Len(bytes)))
             IN  IF ~d.ok THEN AppendNone(current_values)
                 ELSE LET r == V1RunLoop([last_value |-> d.value, values |-> current_values,
                                          panic |-> FALSE], delta, len, checks)
                      IN  IF r.panic THEN AppendPanic(r.values)
                          ELSE Appended(r.values, d.read_len + 2)

\* One turn of the loop: decode_var(&bytes[current..])?; push; current += read_len.
\* lit.read_len is current, counted from 0 as in the code.  A None or a panic
\* ends the loop: the turns after it do nothing.
V1LiteralTurn(bytes, lit) ==
    IF lit.tag # "Some" THEN lit
    ELSE IF lit.read_len > Len(bytes) THEN AppendPanic(lit.values)
    ELSE LET d == DecodeVarU64(SubSeq(bytes, lit.read_len + 1, Len(bytes)))
         IN  IF ~d.ok THEN AppendNone(lit.values)
             ELSE Appended(Append(lit.values, d.value), lit.read_len + d.read_len)

\* for _ in 0..len { ... }: n turns, as the first n \div 2 turns and then the
\* others.
RECURSIVE V1LiteralLoop(_, _, _)
V1LiteralLoop(bytes, lit, n) ==
    IF n = 0 THEN lit
    ELSE IF n = 1 THEN V1LiteralTurn(bytes, lit)
    ELSE Only({V1LiteralLoop(bytes, half, n - n \div 2) :
                  half \in {V1LiteralLoop(bytes, lit, n \div 2)}})

\* intv1::append_next_u64s(bytes, current_values, _signed)
V1AppendNextU64s(bytes, current_values, checks) ==
    IF bytes = <<>> THEN AppendNone(current_values)
    ELSE IF bytes[1] < 128 THEN V1Run(bytes, current_values, checks)
    ELSE V1LiteralLoop(bytes, Appended(current_values, 1), WrappingNegU8(bytes[1]))
----------------------------------------------------------------------------
(* Integer RLE v2: src/rle/intv2.rs *)

FIVE_BIT_ENCODING ==
    <<0, 2, 3, 4, 5, 6, 7, 8, 9, 10, 11, 12, 13, 14, 15, 16, 17, 18, 19, 20, 21, 22, 23, 24,
      26, 28, 30, 32, 40, 48, 56, 64>>

\* five_bit_width(byte, is_delta)
FiveBitWidth(byte, is_delta) ==
    IF ~is_delta /\ byte = 0 THEN 1 ELSE FIVE_BIT_ENCODING[byte + 1]

\* closest_fixed_bits(bits)
ClosestFixedBits(bits) ==
    IF bits = 0 THEN 1
    ELSE IF bits <= 24 THEN bits
    ELSE IF bits <= 26 THEN 26
    ELSE IF bits <= 28 THEN 28
    ELSE IF bits <= 30 THEN 30
    ELSE IF bits <= 32 THEN 32
    ELSE IF bits <= 40 THEN 40
    ELSE IF bits <= 48 THEN 48
    ELSE IF bits <= 56 THEN 56
    ELSE 64

\* bits_to_bytes, were the bits of a last partial byte not counted
BitsToBytes_Floor(bit_count) == bit_count \div 8

\* bits_to_bytes(bit_count)
BitsToBytes(bit_count) == (bit_count \div 8) + (IF bit_count % 8 = 0 THEN 0 ELSE 1)

\* enum Header, one record shape for the four variants.
HeaderOf(kind, width, len, repeat_count, base_width, patch_width, patch_gap_width, patch_list_len) ==
    [kind |-> kind, width |-> width, len |-> len, repeat_count |-> repeat_count,
     base_width |-> base_width, patch_width |-> patch_width,
     patch_gap_width |-> patch_gap_width, patch_list_len |-> patch_list_len]

NoHeader == HeaderOf("None", 0, 0, 0, 0, 0, 0, 0)

Parsed(header, current) == [tag |-> "Some", header |-> header, current |-> current]
ParseNone == [tag |-> "None", header |-> NoHeader, current |-> 0]
ParsePanic == [tag |-> "Panic", header |-> NoHeader, current |-> 0]

\* parse_header(bytes): bytes[1], bytes[2] and bytes[3] are indexed without a
\* look at the length.
ParseHeader(bytes) ==
    IF bytes = <<>> THEN ParseNone
    ELSE LET b0 == bytes[1]
             tag == (b0 \div 64) % 4
         IN  IF tag = 0
             THEN Parsed(HeaderOf("ShortRepeat", ((b0 \div 8) % 8) + 1, 0, (b0 % 8) + 3,
                                  0, 0, 0, 0), 1)
             ELSE IF Len(bytes) < 2 THEN ParsePanic
             ELSE LET width == FiveBitWidth((b0 \div 2) % 32, tag = 3)
                      len == ((b0 % 2) * 256) + bytes[2] + 1
                  IN  CASE tag = 1 -> Parsed(HeaderOf("Direct", width, len, 0, 0, 0, 0, 0), 2)
                        [] tag = 3 -> Parsed(HeaderOf("Delta", width, len, 0, 0, 0, 0, 0), 2)
                        [] OTHER ->
                            IF Len(bytes) < 4 THEN ParsePanic
                            ELSE LET b2 == bytes[3]
                                     b3 == bytes[4]
                                 IN  Parsed(HeaderOf("PatchedBase", width, len, 0,
                                                     ((b2 \div 32) % 8) + 1,
                                                     FiveBitWidth(b2 % 32, FALSE),
                                                     ((b3 \div 32) % 8) + 1,
                                                     b3 % 32), 4)

\* The result of reading one integer.
ReadSome(v) == [tag |-> "Some", v |-> v]
ReadNone == [tag |-> "None", v |-> U64Zero]
ReadPanic == [tag |-> "Panic", v |-> U64Zero]

\* value *= 256; value += b, for the bytes from index i (from 1) up to last.
RECURSIVE BeAccumulate(_, _, _, _, _)
BeAccumulate(bytes, i, last, value, checks) ==
    IF i > last THEN ReadSome(value)
    ELSE LET m == U64Mul256(value)
         IN  IF m.overflow /\ checks THEN ReadPanic
             ELSE BeAccumulate(bytes, i + 1, last, U64Add(m.v, U64Of(bytes[i])).v, checks)

\* read_u64_be_bytes(bytes, byte_width)
ReadU64BeBytes(bytes, byte_width, checks) ==
    IF byte_width > 8 \/ Len(bytes) < byte_width THEN ReadNone
    ELSE BeAccumulate(bytes, 1, byte_width, U64Zero, checks)

\* read_u64_be_bits(bytes, bit_offset, bit_width)
ReadU64BeBits(bytes, bit_offset, bit_width, checks) ==
    LET bits_needed == bit_offset + bit_width
        bits_leftover == bits_needed % 8
        bytes_needed == (bits_needed \div 8) + (IF bits_leftover = 0 THEN 0 ELSE 1)
        current_byte == bit_offset \div 8
        current_bit == bit_offset % 8
    IN  IF bit_width > 64 \/ Len(bytes) < bytes_needed THEN ReadNone
        ELSE IF current_byte >= Len(bytes) THEN ReadPanic
        ELSE LET first == U64Of(bytes[current_byte + 1] % (2 ^ (8 - current_bit)))
                 r == BeAccumulate(bytes, current_byte + 2, bytes_needed, first, checks)
             IN  IF r.tag = "Some" /\ bits_leftover # 0
                 THEN ReadSome(Shr(r.v, 8 - bits_leftover))
                 ELSE r

\* bytes.len() < expected, but for a buffer that ends with the frame
Truncated_UnlessExact(bytes, expected) == Len(bytes) # expected

\* bytes.len() < expected
Truncated(bytes, expected) == Len(bytes) < expected

\* One turn of the Direct loop: push(read_u64_be_bits(data, i * width, width)?).
\* A None or a panic ends the loop: the turns after it do nothing.
V2DirectTurn(data, width, run, checks) ==
    IF run.tag # "Some" THEN run
    ELSE LET r == ReadU64BeBits(data, run.i * width, width, checks)
         IN  IF r.tag # "Some" THEN [run EXCEPT !.tag = r.tag]
             ELSE [tag |-> "Some", values |-> Append(run.values, r.v), i |-> run.i + 1]

\* for i in 0..len { ... }: n turns, as the first n \div 2 turns and then the
\* others.
RECURSIVE V2DirectLoop(_, _, _, _, _)
V2DirectLoop(data, width, run, n, checks) ==
    IF n = 0 THEN run
    ELSE IF n = 1 THEN V2DirectTurn(data, width, run, checks)
    ELSE Only({V2DirectLoop(data, width, half, n - n \div 2, checks) :
                  half \in {V2DirectLoop(data, width, run, n \div 2, checks)}})

\* The ShortRepeat arm, were its loop one turn short
V2ShortRepeat_OneFewer(bytes, header, current, current_values, checks) ==
    LET expected == current + header.width
    IN  IF Truncated(bytes, expected) THEN AppendNone(current_values)
        ELSE LET r == ReadU64BeBytes(SubSeq(bytes, current + 1, Len(bytes)),
                                     header.width, checks)
             IN  CASE r.tag = "None" -> AppendNone(current_values)
                   [] r.tag = "Panic" -> AppendPanic(current_values)
                   [] OTHER -> Appended(current_values \o Repeat(r.v, header.repeat_count - 1),
                                        expected)

\* The ShortRepeat arm; current counts from 0 as in the code.
V2ShortRepeat(bytes, header, current, current_values, checks) ==
    LET expected == current + header.width
    IN  IF Truncated(bytes, expected) THEN AppendNone(current_values)
        ELSE LET r == ReadU64BeBytes(SubSeq(bytes, current + 1, Len(bytes)),
                                     header.width, checks)
             IN  CASE r.tag = "None" -> AppendNone(current_values)
                   [] r.tag = "Panic" -> AppendPanic(current_values)
                   [] OTHER -> Appended(current_values \o Repeat(r.v, header.repeat_count),
                                        expected)

\* The Direct arm.
V2Direct(bytes, header, current, current_values, checks) ==
    LET expected == current + BitsToBytes(header.width * header.len)
    IN  IF Truncated(bytes, expected) THEN AppendNone(current_values)
        ELSE LET r == V2DirectLoop(SubSeq(bytes, current + 1, Len(bytes)), header.width,
                                   [tag |-> "Some", values |-> current_values, i |-> 0],
                                   header.len, checks)
             IN  CASE r.tag = "None" -> AppendNone(r.values)
                   [] r.tag = "Panic" -> AppendPanic(r.values)
                   [] OTHER -> Appended(r.values, expected)

\* The base of a Delta run as it is pushed: the decoded i64 when signed, its
\* zigzag re-encoding when not.
V2DeltaBase(base, signed) ==
    IF signed THEN Arith(base, FALSE)
    ELSE IF IsNegative(base)
    THEN LET n == I64Neg(base)
             d == I64Double(n.v)
             s == I64Sub(d.v, U64Of(1))
         IN  Arith(s.v, n.overflow \/ d.overflow \/ s.overflow)
    ELSE I64Double(base)

\* The loop for width == 0: n more values, each the last plus delta.
RECURSIVE V2DeltaFixedLoop(_, _, _, _, _)
V2DeltaFixedLoop(last_value, delta, n, values, checks) ==
    IF n = 0 THEN [tag |-> "Some", values |-> values]
    ELSE LET s == I64Add(last_value, delta)
         IN  IF s.overflow /\ checks THEN [tag |-> "Panic", values |-> values]
             ELSE V2DeltaFixedLoop(s.v, delta, n - 1, Append(values, s.v), checks)

\* The loop for width > 0: the i-th packed value, signed by signum, is added
\* to the last value.
RECURSIVE V2DeltaPackedLoop(_, _, _, _, _, _, _, _)
V2DeltaPackedLoop(data, i, n, width, signum, last_value, values, checks) ==
    IF i >= n THEN [tag |-> "Some", values |-> values]
    ELSE LET r == ReadU64BeBits(data, i * width, width, checks)
         IN  IF r.tag # "Some" THEN [tag |-> r.tag, values |-> values]
             ELSE LET m == I64MulSign(signum, r.v)
                      s == I64Add(last_value, m.v)
                  IN  IF (m.overflow \/ s.overflow) /\ checks
                      THEN [tag |-> "Panic", values |-> values]
                      ELSE V2DeltaPackedLoop(data, i + 1, n, width, signum, s.v,
                                             Append(values, s.v), checks)

\* The Delta arm once base and delta are read and len >= 2.
V2DeltaBody(bytes, header, current, base, delta, current_values, signed, checks) ==
    LET expected == current + BitsToBytes(header.width * (header.len - 2))
    IN  IF Truncated(bytes, expected) THEN AppendNone(current_values)
        ELSE LET b == V2DeltaBase(base, signed)
                 second == I64Add(b.v, delta)
                 two == current_values \o <<b.v, second.v>>
             IN  IF b.overflow /\ checks THEN AppendPanic(current_values)
                 ELSE IF second.overflow /\ checks
                 THEN AppendPanic(Append(current_values, b.v))
                 ELSE LET r == IF header.width = 0
                               THEN V2DeltaFixedLoop(second.v, delta, header.len - 2, two,
                                                     checks)
                               ELSE V2DeltaPackedLoop(SubSeq(bytes, current + 1, Len(bytes)),
                                                      0, header.len - 2, header.width,
                                                      Signum(delta), second.v, two, checks)
                      IN  CASE r.tag = "None" -> AppendNone(r.values)
                            [] r.tag = "Panic" -> AppendPanic(r.values)
                            [] OTHER -> Appended(r.values, expected)

\* The Delta arm for len == 1: len - 2 underflows.  An overflow-checked
\* build panics.  Otherwise the count wraps to 2^64 - 1: with width > 0 the
\* expected length is beyond any buffer, with width == 0 it is current and
\* the loop pushes until memory runs out.
V2DeltaOfOne(bytes, header, base, delta, current_values, signed, checks) ==
    IF checks THEN AppendPanic(current_values)
    ELSE IF header.width # 0 THEN AppendNone(current_values)
    ELSE LET b == V2DeltaBase(base, signed)
         IN  AppendAbort(current_values \o <<b.v, I64Add(b.v, delta).v>>)

\* The Delta arm.
V2Delta(bytes, header, current, current_values, signed, checks) ==
    LET b == DecodeVarI64(SubSeq(bytes, current + 1, Len(bytes)))
        d == DecodeVarI64(SubSeq(bytes, current + b.read_len + 1, Len(bytes)))
    IN  IF ~b.ok \/ ~d.ok THEN AppendNone(current_values)
        ELSE IF header.len < 2
        THEN V2DeltaOfOne(bytes, header, b.value, d.value, current_values, signed, checks)
        ELSE V2DeltaBody(bytes, header, current + b.read_len + d.read_len, b.value, d.value,
                         current_values, signed, checks)

\* for i in 0..len { data_values.push(read_u64_be_bits(data, i * width, width)? + base) }
RECURSIVE V2PatchedDataLoop(_, _, _, _, _, _, _)
V2PatchedDataLoop(data, i, len, width, base, data_values, checks) ==
    IF i >= len THEN [tag |-> "Some", values |-> data_values]
    ELSE LET r == ReadU64BeBits(data, i * width, width, checks)
             s == U64Add(r.v, base)
         IN  IF r.tag # "Some" THEN [tag |-> r.tag, values |-> data_values]
             ELSE IF s.overflow /\ checks THEN [tag |-> "Panic", values |-> data_values]
             ELSE V2PatchedDataLoop(data, i + 1, len, width, base,
                                    Append(data_values, s.v), checks)

\* a - b on u8: the wrapped difference and whether it went below zero.
U8Sub(a, b) == [v |-> (a - b) % 256, overflow |-> a < b]

\* patch_value << width on u64: a shift by 64 or more is an overflow, and
\* wraps to a shift by width % 64.
U64ShlU8(patch_value, width) == Arith(Shl(patch_value, width % 64), width >= 64)

\* A u64 known to be below 2^16, as an integer.
SmallOf(u) == u[4]

\* The loop over the patch list; patch_pos counts from 0 as in the code.
RECURSIVE V2PatchLoop(_, _, _, _, _, _)
V2PatchLoop(data, i, patch_pos, header, data_values, checks) ==
    IF i >= header.patch_list_len THEN [tag |-> "Some", values |-> data_values]
    ELSE LET patch_list_item_len ==
                 ClosestFixedBits(header.patch_gap_width + header.patch_width)
             bit_offset == i * patch_list_item_len
             gap_at == U8Sub(U8Sub(patch_list_item_len, header.patch_width).v,
                             header.patch_gap_width)
             value_at == U8Sub(patch_list_item_len, header.patch_width)
             patch_gap == ReadU64BeBits(data, bit_offset + gap_at.v,
                                        header.patch_gap_width, checks)
             patch_value == ReadU64BeBits(data, bit_offset + value_at.v,
                                          header.patch_width, checks)
             pos == patch_pos + SmallOf(patch_gap.v)
             shifted == U64ShlU8(patch_value.v, header.width)
             patched == U64Add(data_values[pos + 1], shifted.v)
         IN  IF gap_at.overflow /\ checks THEN [tag |-> "Panic", values |-> data_values]
             ELSE IF patch_gap.tag # "Some" THEN [tag |-> patch_gap.tag, values |-> data_values]
             ELSE IF patch_value.tag # "Some"
             THEN [tag |-> patch_value.tag, values |-> data_values]
             ELSE IF pos >= Len(data_values) THEN [tag |-> "Panic", values |-> data_values]
             ELSE IF (shifted.overflow \/ patched.overflow) /\ checks
             THEN [tag |-> "Panic", values |-> data_values]
             ELSE V2PatchLoop(data, i + 1, pos, header,
                              [data_values EXCEPT ![pos + 1] = patched.v], checks)

\* The PatchedBase arm.
V2PatchedBase(bytes, header, current, current_values, checks) ==
    LET data_len == BitsToBytes(header.width * header.len)
        expected == current + header.base_width + data_len
                    + BitsToBytes(header.patch_list_len
                                  * ClosestFixedBits(header.patch_gap_width
                                                     + header.patch_width))
    IN  IF Truncated(bytes, expected) THEN AppendNone(current_values)
        ELSE LET base == ReadU64BeBytes(SubSeq(bytes, current + 1, Len(bytes)),
                                        header.base_width, checks)
                 at_data == current + header.base_width
                 data == V2PatchedDataLoop(SubSeq(bytes, at_data + 1, Len(bytes)), 0,
                                           header.len, header.width, base.v, <<>>, checks)
                 at_patches == at_data + data_len
                 patches == V2PatchLoop(SubSeq(bytes, at_patches + 1, Len(bytes)), 0, 0,
                                        header, data.values, checks)
             IN  CASE base.tag = "None" -> AppendNone(current_values)
                   [] base.tag = "Panic" -> AppendPanic(current_values)
                   [] data.tag = "None" -> AppendNone(current_values)
                   [] data.tag = "Panic" -> AppendPanic(current_values)
                   [] patches.tag = "None" -> AppendNone(current_values)
                   [] patches.tag = "Panic" -> AppendPanic(current_values)
                   [] OTHER -> Appended(current_values \o patches.values, expected)

\* intv2::append_next_u64s(bytes, current_values, signed)
V2AppendNextU64s(bytes, current_values, signed, checks) ==
    LET p == ParseHeader(bytes)
    IN  CASE p.tag = "None" -> AppendNone(current_values)
          [] p.tag = "Panic" -> AppendPanic(current_values)
          [] p.header.kind = "ShortRepeat" ->
                V2ShortRepeat(bytes, p.header, p.current, current_values, checks)
          [] p.header.kind = "Direct" ->
                V2Direct(bytes, p.header, p.current, current_values, checks)
          [] p.header.kind = "Delta" ->
                V2Delta(bytes, p.header, p.current, current_values, signed, checks)
          [] OTHER -> V2PatchedBase(bytes, p.header, p.current, current_values, checks)

----------------------------------------------------------------------------
(* decode_u64s, and the frames it is run on *)

\* append_next_u64s of the decoder chosen by the stream's encoding version.
AppendNextU64s(version, bytes, current_values, signed, checks) ==
    IF version = 1 THEN V1AppendNextU64s(bytes, current_values, checks)
    ELSE V2AppendNextU64s(bytes, current_values, signed, checks)

\* The while loop of decode_u64s from offset pos on.
RECURSIVE DecodeU64sFrom(_, _, _, _, _, _)
DecodeU64sFrom(version, bytes, pos, values, signed, checks) ==
    IF pos >= Len(bytes) THEN [tag |-> "Some", values |-> values]
    ELSE LET r == AppendNextU64s(version, SubSeq(bytes, pos + 1, Len(bytes)), values,
                                 signed, checks)
         IN  IF r.tag # "Some" THEN [tag |-> r.tag, values |-> <<>>]
             ELSE IF pos + r.read_len > Len(bytes) THEN [tag |-> "Panic", values |-> <<>>]
             ELSE DecodeU64sFrom(version, bytes, pos + r.read_len, r.values, signed, checks)

\* decode_u64s(bytes, expected_len, signed)
DecodeU64s(version, bytes, signed, checks) ==
    DecodeU64sFrom(version, bytes, 0, <<>>, signed, checks)

\* The test vectors of intv1.rs.
RUN_SAME_INPUT == <<97, 0, 7>>
RUN_DELTA_INPUT == <<97, 255, 100>>
LITERAL_INPUT == <<251, 2, 3, 6, 7, 11>>

\* The varints of 2^63 - 3, 2^63 - 2, 2^63 and 2^64 - 1.
VarintBelowI64Max(low) == <<low>> \o Repeat(255, 7) \o <<127>>
VarintI64Min == Repeat(128, 9) \o <<1>>
VarintU64Max == Repeat(255, 9) \o <<1>>

\* Frames of integer RLE v1: the test vectors; runs that pass 0, 2^63 and
\* 2^64; the longest run and the longest literal; literals of long varints;
\* and frames cut short or with a varint that does not end.
V1Frames ==
    {RUN_SAME_INPUT, RUN_DELTA_INPUT, LITERAL_INPUT,
     <<0, 255, 1>>,
     <<0, 1>> \o VarintU64Max,
     <<0, 1>> \o VarintBelowI64Max(254),
     <<0, 1>> \o VarintBelowI64Max(253),
     <<0, 255>> \o VarintI64Min,
     <<127, 128, 0>>,
     <<128>> \o Repeat(5, 128),
     <<255, 128, 1>>,
     <<255>> \o VarintU64Max,
     <<0>>, <<0, 1>>, <<254, 1>>, <<255, 128>>,
     <<255>> \o Repeat(255, 10) \o <<1>>}

\* The test vectors of intv2.rs.
SHORT_REPEAT_INPUT == <<10, 39, 16>>
DIRECT_INPUT == <<94, 3, 92, 161, 171, 30, 222, 173, 190, 239>>
PATCHED_BASE_INPUT ==
    <<142, 19, 43, 33, 7, 208, 30, 0, 20, 112, 40, 50, 60, 70, 80, 90, 100, 110, 120, 130,
      140, 150, 160, 170, 180, 190, 252, 232>>
DELTA_INPUT == <<198, 9, 2, 2, 34, 66, 66, 70>>

\* Frames of integer RLE v2: the test vectors; Delta runs of fixed delta, of
\* two values and of one value; a Direct run of one bit; a ShortRepeat of
\* eight bytes; and frames cut short.
V2Frames ==
    {SHORT_REPEAT_INPUT, DIRECT_INPUT, PATCHED_BASE_INPUT, DELTA_INPUT,
     <<192, 2, 3, 1>>,
     <<198, 1, 2, 2>>,
     <<192, 0, 2, 2>>,
     <<198, 0, 2, 2>>,
     <<64, 0, 128>>,
     <<56>> \o Repeat(255, 8),
     <<94>>, <<142, 19>>, <<10, 39>>}

\* The most frames an input is made of.
MaxFrames == 2

IntIdle ==
    /\ i_version = 1
    /\ i_signed = FALSE
    /\ i_frames = <<>>
    /\ i_pos = 0
    /\ i_values = <<>>
    /\ i_reads = <<>>
    /\ i_status = "idle"

\* decode_u64s is called: values is empty and current is all of bytes.  The
\* v1 decoder does not look at its _signed parameter.
IntStart ==
    /\ i_version \in {1, 2}
    /\ i_signed \in IF i_version = 1 THEN {FALSE} ELSE BOOLEAN
    /\ i_frames \in SeqsUpTo(IF i_version = 1 THEN V1Frames ELSE V2Frames, MaxFrames)
    /\ i_pos = 0
    /\ i_values = <<>>
    /\ i_reads = <<>>
    /\ i_status = "running"

IntBytes == Concat(i_frames)

\* One turn of the while loop: append_next_u64s(current, &mut values, signed)?
\* and current = &current[read_len..].
IntAppend ==
    /\ i_status = "running"
    /\ i_pos < Len(IntBytes)
    /\ \E r \in {AppendNextU64s(i_version, SubSeq(IntBytes, i_pos + 1, Len(IntBytes)),
                                 i_values, i_signed, overflow_checks)} :
         LET fits == i_pos + r.read_len <= Len(IntBytes)
         IN  /\ i_values' = r.values
             /\ i_status' = CASE r.tag = "Some" -> IF fits THEN "running" ELSE "panic"
                              [] r.tag = "None" -> "none"
                              [] r.tag = "Panic" -> "panic"
                              [] OTHER -> "abort"
             /\ i_pos' = IF r.tag = "Some" /\ fits THEN i_pos + r.read_len ELSE i_pos
             /\ i_reads' = IF r.tag = "Some" THEN Append(i_reads, r.read_len) ELSE i_reads
    /\ UNCHANGED <<i_version, i_signed, i_frames, intOthers>>

\* current is empty: Some(values)
IntReturn ==
    /\ i_status = "running"
    /\ i_pos = Len(IntBytes)
    /\ i_status' = "some"
    /\ UNCHANGED <<i_version, i_signed, i_frames, i_pos, i_values, i_reads, intOthers>>

NextInt == IntAppend \/ IntReturn

----------------------------------------------------------------------------
(* Integer RLE v2, one kind of frame at a time: the inputs *)

\* What the payload of a frame is filled with, over and over.
PayloadPatterns == {<<165, 90, 255, 0, 19>>, <<255, 255, 255, 255, 255>>, <<1, 128, 64, 7, 254>>}

\* A payload of the given number of bits, in whole bytes.
Payload(pattern, bits) == [j \in 1..((bits + 7) \div 8) |-> pattern[((j - 1) % Len(pattern)) + 1]]

\* The most values of a generated frame, but for the two frames that use the
\* ninth bit of the length.
MaxDirectLen == 4

\* The width codes of the generated Direct frames: widths 1, 3, 8, 13, 24, 30
\* and 64.
DirectWidthCodes == {0, 2, 7, 12, 23, 26, 31}

\* The header Direct { width, len } is parsed from.
DirectHeader(code, len) == <<64 + (2 * code) + ((len - 1) \div 256), (len - 1) % 256>>

\* A whole Direct frame.
DirectFrame(code, len, pattern) ==
    DirectHeader(code, len)
      \o Payload(pattern, FiveBitWidth(code, FALSE) * len)

DirectFrames ==
    {DirectFrame(code, len, pattern) :
        code \in DirectWidthCodes, len \in 1..MaxDirectLen, pattern \in PayloadPatterns}
    \cup {DirectFrame(0, 257, pattern) : pattern \in PayloadPatterns}
    \cup {DirectFrame(2, 258, pattern) : pattern \in PayloadPatterns}

\* decode_u64s is called on a Direct frame, alone or with a frame after it.
DirectStart ==
    /\ i_version = 2
    /\ i_signed \in BOOLEAN
    /\ \E frame \in DirectFrames : i_frames \in {<<frame>>, <<frame, SHORT_REPEAT_INPUT>>}
    /\ i_pos = 0
    /\ i_values = <<>>
    /\ i_reads = <<>>
    /\ i_status = "running"

\* The `width` bits of a value below 2^30, the most significant first.
FieldBits(value, width) ==
    [k \in 1..width |-> IF width - k > 29 THEN 0 ELSE (value \div (2 ^ (width - k))) % 2]

\* Bits packed into whole bytes, the first bit the most significant of the
\* first byte; the bits left over in the last byte are 0.
PackedBytes(bits) ==
    LET At(k) == IF k <= Len(bits) THEN bits[k] ELSE 0
    IN  [j \in 1..((Len(bits) + 7) \div 8) |->
            LET from == 8 * (j - 1)
            IN  (128 * At(from + 1)) + (64 * At(from + 2)) + (32 * At(from + 3))
                  + (16 * At(from + 4)) + (8 * At(from + 5)) + (4 * At(from + 6))
                  + (2 * At(from + 7)) + At(from + 8)]

\* The most values of a generated PatchedBase frame.
MaxPatchedLen == 3

\* The header PatchedBase { .. } is parsed from.
PatchedHeader(code, len, base_width, patch_code, patch_gap_width, patch_list_len) ==
    <<128 + (2 * code) + ((len - 1) \div 256), (len - 1) % 256,
      (32 * (base_width - 1)) + patch_code, (32 * (patch_gap_width - 1)) + patch_list_len>>

\* The patch list: each <<gap, value>> at the low end of its item, the bits
\* before it 0.
PatchList(patches, patch_gap_width, patch_width, item_len) ==
    PackedBytes(Concat([i \in 1..Len(patches) |->
        Repeat(0, item_len - patch_gap_width - patch_width)
          \o FieldBits(patches[i][1], patch_gap_width)
          \o FieldBits(patches[i][2], patch_width)]))

\* A whole PatchedBase frame: header, base, the packed data, the patch list.
PatchedFrame(code, base, data, patch_code, patch_gap_width, patches) ==
    LET width == FiveBitWidth(code, FALSE)
        patch_width == FiveBitWidth(patch_code, FALSE)
    IN  PatchedHeader(code, Len(data), Len(base), patch_code, patch_gap_width, Len(patches))
          \o base
          \o PackedBytes(Concat([i \in 1..Len(data) |-> FieldBits(data[i], width)]))
          \o PatchList(patches, patch_gap_width, patch_width,
                       ClosestFixedBits(patch_gap_width + patch_width))

\* The bases of the generated frames: 2000 as in the test vector, 0, and the
\* greatest of eight bytes.
PatchedBases == {<<7, 208>>, <<0>>, Repeat(255, 8)}

\* The patch lists of the generated frames, as <<gap, value>>: none, one at
\* the first value, one further on, two at one value, two apart.
PatchLists ==
    {<<>>, <<<<0, 1>>>>, <<<<1, 1>>>>, <<<<2, 1>>>>, <<<<0, 1>>, <<0, 1>>>>,
     <<<<1, 1>>, <<1, 1>>>>}

\* Frames of widths 1, 3, 8, 16 and 64, of patch widths 1, 12, 56 and 64 and
\* of gap widths 2 and 8; value i of the data is 1 + i, cut to the width.
PatchedFrames ==
    {PatchedFrame(code, base, [i \in 1..len |-> (1 + i) % (2 ^ Min(FiveBitWidth(code, FALSE), 8))],
                  patch_code, patch_gap_width, patches) :
        code \in {0, 2, 7, 15, 31}, base \in PatchedBases, len \in 1..MaxPatchedLen,
        patch_code \in {0, 11, 30, 31}, patch_gap_width \in {2, 8}, patches \in PatchLists}

\* decode_u64s is called on a PatchedBase frame, alone or with a frame after
\* it.
PatchedStart ==
    /\ i_version = 2
    /\ i_signed \in BOOLEAN
    /\ \E frame \in PatchedFrames : i_frames \in {<<frame>>, <<frame, SHORT_REPEAT_INPUT>>}
    /\ i_pos = 0
    /\ i_values = <<>>
    /\ i_reads = <<>>
    /\ i_status = "running"

\* The most values of a generated Delta frame.
MaxDeltaLen == 4

\* The varints the generated Delta frames take their base from: 1, -1, 0,
\* 100, 2^62 and -2^63 as signed varints.
DeltaBases == {<<2>>, <<1>>, <<0>>, <<200, 1>>, VarintI64Min, VarintU64Max}

\* The varints they take their first delta from: 1, -1, 0 and -300.
DeltaDeltas == {<<2>>, <<1>>, <<0>>, <<215, 4>>}

\* A whole Delta frame: header, base, first delta, the packed magnitudes.
DeltaFrame(code, len, base, delta, pattern) ==
    <<192 + (2 * code) + ((len - 1) \div 256), (len - 1) % 256>> \o base \o delta
      \o Payload(pattern, FIVE_BIT_ENCODING[code + 1] * (IF len < 2 THEN 0 ELSE len - 2))

\* Frames of widths 0, 2, 8, 16 and 64.
DeltaFrames ==
    {DeltaFrame(code, len, base, delta, pattern) :
        code \in {0, 1, 7, 15, 31}, len \in 1..MaxDeltaLen, base \in DeltaBases,
        delta \in DeltaDeltas, pattern \in PayloadPatterns}

\* decode_u64s is called on a Delta frame, alone or with a frame after it.
DeltaStart ==
    /\ i_version = 2
    /\ i_signed \in BOOLEAN
    /\ \E frame \in DeltaFrames : i_frames \in {<<frame>>, <<frame, SHORT_REPEAT_INPUT>>}
    /\ i_pos = 0
    /\ i_values = <<>>
    /\ i_reads = <<>>
    /\ i_status = "running"

----------------------------------------------------------------------------
(* Frames of the four kinds *)

\* Header::value_count
HeaderValueCount(header) ==
    IF header.kind = "ShortRepeat" THEN header.repeat_count ELSE header.len

\* ShortRepeat frames of 1, 4 and 8 bytes repeated 3, 4 and 10 times.
ShortRepeatFrames ==
    {<<((width - 1) * 8) + (repeat_count - 3)>> \o Payload(pattern, 8 * width) :
        width \in {1, 4, 8}, repeat_count \in {3, 4, 10}, pattern \in PayloadPatterns}

\* decode_u64s is called on a frame of any of the four kinds: alone, with a
\* frame after it, or after the Delta test vector.
FramesStart ==
    /\ i_version = 2
    /\ i_signed \in BOOLEAN
    /\ \E frame \in ShortRepeatFrames \cup DirectFrames \cup PatchedFrames \cup DeltaFrames :
          i_frames \in {<<frame>>, <<frame, SHORT_REPEAT_INPUT>>, <<DELTA_INPUT, frame>>}
    /\ i_pos = 0
    /\ i_values = <<>>
    /\ i_reads = <<>>
    /\ i_status = "running"

----------------------------------------------------------------------------
(* The decompressor: src/compress.rs *)

COMPRESSION_HEADER_LEN == 3
NONE_COMPRESSION_BUFFER_CAPACITY == 512

\* The decoders of the zstd and flate2 crates stand outside the source.  A
\* compressed body is modelled as pairs <<count, byte>>, each decoded into
\* count copies of byte; a byte left over at the end decodes into nothing.
RECURSIVE Inflate(_)
Inflate(body) ==
    IF Len(body) < 2 THEN <<>>
    ELSE Repeat(body[2], body[1]) \o Inflate(SubSeq(body, 3, Len(body)))

\* No decoder: Decompressor.decoder is None.
NoDecoder == [tag |-> "Taken", start |-> 0, limit |-> 0, given |-> 0]

\* The bytes of the file a decoder may read: file.take(chunk_len) from the
\* position start on.
BodyOf(file, decoder) ==
    SubSeq(file, decoder.start + 1, Min(decoder.start + decoder.limit, Len(file)))

\* All that a decoder yields, from its first read to its last.
Decoded(file, decoder) ==
    IF decoder.tag = "None" THEN BodyOf(file, decoder) ELSE Inflate(BodyOf(file, decoder))

\* read_header(file) at position at: read_exact of three bytes, then the
\* flag and the 23 bits of the length.
ReadHeader(file, at) ==
    IF at + COMPRESSION_HEADER_LEN > Len(file)
    THEN [ok |-> FALSE, is_original |-> FALSE, chunk_len |-> 0, at |-> IF at < Len(file) THEN Len(file) ELSE at]
    ELSE [ok |-> TRUE,
          is_original |-> file[at + 1] % 2 = 1,
          chunk_len |-> (file[at + 3] * 32768) + (file[at + 2] * 128) + (file[at + 1] \div 2),
          at |-> at + COMPRESSION_HEADER_LEN]

\* open_decoder(file.take(chunk_len), chunk_compression), the file being at
\* position start.
OpenDecoder(compression, is_original, chunk_len, start) ==
    [tag |-> CASE is_original \/ compression = "NONE" -> "None"
               [] compression = "ZLIB" -> "Zlib"
               [] OTHER -> "Zstd",
     start |-> start, limit |-> chunk_len, given |-> 0]

\* remaining - (chunk_len + 3), were the header of the chunk not counted
RemainingAfter_NoHeader(remaining, chunk_len) ==
    Arith(remaining - chunk_len, remaining >= 0 /\ remaining < chunk_len)

\* remaining - (chunk_len + 3) on u64.  A difference below zero stands for
\* the wrapped value, 2^64 more.
RemainingAfter(remaining, chunk_len) ==
    Arith(remaining - (chunk_len + COMPRESSION_HEADER_LEN),
          remaining >= 0 /\ remaining < chunk_len + COMPRESSION_HEADER_LEN)

DcIdle ==
    /\ dc_file = <<>>
    /\ dc_window = [pos |-> 0, len |-> 0, compression |-> "NONE"]
    /\ dc_at = 0
    /\ dc = [decoder |-> NoDecoder, compression |-> "NONE", remaining |-> 0]
    /\ dc_status = "idle"
    /\ dc_out = <<>>
    /\ dc_ret = [tag |-> "None", n |-> 0]
    /\ dc_opened = <<>>

\* Decompressor::open(file, compression, pos, len)
DcOpen ==
    /\ dc_status = "unopened"
    /\ \E h \in {ReadHeader(dc_file, dc_window.pos)} :
       \E r \in {RemainingAfter(dc_window.len, h.chunk_len)} :
         /\ dc_at' = h.at
         /\ dc_opened' = IF h.ok THEN <<h.chunk_len>> ELSE <<>>
         /\ dc_status' = CASE ~h.ok -> "failed"
                           [] r.overflow /\ overflow_checks -> "panic"
                           [] OTHER -> "open"
         /\ dc' = IF h.ok /\ ~(r.overflow /\ overflow_checks)
                  THEN [decoder |-> OpenDecoder(dc_window.compression, h.is_original,
                                                h.chunk_len, h.at),
                        compression |-> dc_window.compression,
                        remaining |-> r.v]
                  ELSE dc
    /\ UNCHANGED <<dc_file, dc_window, dc_out, dc_ret, dcOthers>>

\* What a read leaves behind: the Decompressor, the position of the File, the
\* headers read, what is returned and the bytes put into buf.
ReadResult(d, at, opened, tag, piece) ==
    [dc |-> d, at |-> at, opened |-> opened, ret |-> [tag |-> tag, n |-> Len(piece)],
     piece |-> piece]

\* <Decompressor as Read>::read(buf) with a buffer of buflen bytes.  The inner
\* decoder buffers the whole body of its chunk at its first read, the bodies
\* being shorter than its buffer.
RECURSIVE DcReadFrom(_, _, _, _, _, _)
DcReadFrom(file, d, at, opened, buflen, checks) ==
    IF d.decoder.tag = "Taken" THEN ReadResult(d, at, opened, "Panic", <<>>)
    ELSE LET decoded == Decoded(file, d.decoder)
             piece == SubSeq(decoded, d.decoder.given + 1,
                             Min(d.decoder.given + buflen, Len(decoded)))
             drained == d.decoder.start + Len(BodyOf(file, d.decoder))
         IN  IF ~(piece = <<>> /\ d.remaining # 0)
             THEN ReadResult([d EXCEPT !.decoder.given = @ + Len(piece)], drained, opened,
                             "Ok", piece)
             ELSE LET h == ReadHeader(file, drained)
                      r == RemainingAfter(d.remaining, h.chunk_len)
                      next == [d EXCEPT !.decoder = OpenDecoder(d.compression, h.is_original,
                                                                 h.chunk_len, h.at)]
                  IN  IF ~h.ok
                      THEN ReadResult([d EXCEPT !.decoder = NoDecoder], h.at, opened,
                                      "Err", <<>>)
                      ELSE IF r.overflow /\ checks
                      THEN ReadResult(next, h.at, Append(opened, h.chunk_len), "Panic", <<>>)
                      ELSE DcReadFrom(file, [next EXCEPT !.remaining = r.v], h.at,
                                      Append(opened, h.chunk_len), buflen, checks)

\* The lengths of the buffers handed to read: never empty, as those of
\* read_to_end, io::copy and the protobuf reader.
BufLens == {1, 3, NONE_COMPRESSION_BUFFER_CAPACITY}

\* One read of the Decompressor.
DcRead ==
    /\ dc_status = "open"
    /\ \E buflen \in BufLens :
       \E r \in {DcReadFrom(dc_file, dc, dc_at, dc_opened, buflen, overflow_checks)} :
         /\ dc' = r.dc
         /\ dc_at' = r.at
         /\ dc_opened' = r.opened
         /\ dc_ret' = r.ret
         /\ dc_out' = dc_out \o r.piece
         /\ dc_status' = IF r.ret.tag = "Panic" THEN "panic" ELSE "open"
    /\ UNCHANGED <<dc_file, dc_window, dcOthers>>

\* Decompressor::into_inner(self): the File, where the decoder left it.
DcIntoInner ==
    /\ dc_status = "open"
    /\ dc_status' = IF dc.decoder.tag = "Taken" THEN "panic" ELSE "closed"
    /\ UNCHANGED <<dc_file, dc_window, dc_at, dc, dc_out, dc_ret, dc_opened, dcOthers>>

NextDc == DcOpen \/ DcRead \/ DcIntoInner

----------------------------------------------------------------------------
(* The files the decompressor is opened on *)

\* The header of a chunk.
ChunkHeader(is_original, chunk_len) ==
    <<(2 * (chunk_len % 128)) + (IF is_original THEN 1 ELSE 0), (chunk_len \div 128) % 256,
      chunk_len \div 32768>>

\* A chunk: header and body.
Chunk(is_original, body) == ChunkHeader(is_original, Len(body)) \o body

\* The chunks of the generated windows: original ones of 0, 1 and 3 bytes,
\* and compressed ones that decode into 2, 0 and 4 bytes.
Chunks ==
    {Chunk(TRUE, <<>>), Chunk(TRUE, <<7>>), Chunk(TRUE, <<7, 8, 9>>),
     Chunk(FALSE, <<2, 5>>), Chunk(FALSE, <<0, 6>>), Chunk(FALSE, <<1, 4, 3, 6>>)}

\* The most chunks of a generated window.
MaxChunks == 2

\* The windows: up to MaxChunks chunks, one chunk of 130 bytes, and headers
\* that declare 128 and 32768 bytes in front of fewer.
Windows ==
    {Concat(cs) : cs \in SeqsUpTo(Chunks, MaxChunks) \ {<<>>}}
    \cup {Chunk(TRUE, Repeat(1, 130)) \o Chunk(TRUE, <<7>>),
          ChunkHeader(TRUE, 128) \o <<7>>, ChunkHeader(FALSE, 32768) \o <<2, 5>>}

\* What lies in the file after a window: nothing, or the start of a stream.
AfterWindow == {<<>>, <<1, 0, 0, 3, 0, 0, 42>>}

\* A File is about to be handed to Decompressor::open: the window lies at
\* the start of the file or after two bytes, and len is its length, one less,
\* four more, or 0.
DcStart ==
    /\ \E window \in Windows, before \in {<<>>, <<9, 9>>}, after \in AfterWindow :
         /\ dc_file = before \o window \o after
         /\ \E len \in {Len(window), Len(window) - 1, Len(window) + 4, 0} :
            \E compression \in {"NONE", "ZLIB", "ZSTD"} :
              dc_window = [pos |-> Len(before), len |-> len, compression |-> compression]
    /\ dc_at \in {0, Len(dc_file)}
    /\ dc = [decoder |-> NoDecoder, compression |-> "NONE", remaining |-> 0]
    /\ dc_status = "unopened"
    /\ dc_out = <<>>
    /\ dc_ret = [tag |-> "None", n |-> 0]
    /\ dc_opened = <<>>

----------------------------------------------------------------------------
(* The metadata parser: src/parser.rs (OrcFile) *)

SUPPORTED_COMPRESSION_KINDS == {"ZSTD", "ZLIB", "NONE"}

\* parser::Error, as its variant and what the variant carries.
PErr(kind, a, b) == [tag |-> "Err", kind |-> kind, a |-> a, b |-> b]

\* The type kinds extract_column_type_kinds lets through.
SupportedTypeKind(kind) == kind \in {"LONG", "INT", "STRING", "BOOLEAN"}

\* extract_column_type_kinds(footer): the kinds of the types after the first,
\* or the error of the first kind that is not supported.  i is the index of
\* the type looked at, from 1.
RECURSIVE ExtractFrom(_, _, _)
ExtractFrom(types, i, kinds) ==
    IF i > Len(types) THEN [tag |-> "Ok", kinds |-> kinds]
    ELSE IF SupportedTypeKind(types[i].kind)
    THEN ExtractFrom(types, i + 1, Append(kinds, types[i].kind))
    ELSE PErr("UnsupportedType", types[i].kind, 0)

\* .skip(1), were the first type looked at as well
ExtractColumnTypeKinds_NoSkip(types) == ExtractFrom(types, 1, <<>>)

\* .iter().skip(1).map(..).collect()
ExtractColumnTypeKinds(types) == ExtractFrom(types, 2, <<>>)

\* HashMap::insert
MapInsert(map, key, value) ==
    [k \in (DOMAIN map) \cup {key} |-> IF k = key THEN value ELSE map[k]]

\* .into_iter().collect() into a HashMap: the pairs inserted in order.
RECURSIVE CollectMap(_, _)
CollectMap(pairs, map) ==
    IF pairs = <<>> THEN map
    ELSE CollectMap(Tail(pairs), MapInsert(map, pairs[1][1], pairs[1][2]))

\* field_names.iter().enumerate().map(|(i, name)| (name, i)): indices from 0.
NamesWithIndices(field_names) == [i \in 1..Len(field_names) |-> <<field_names[i], i - 1>>]

Reversed(s) == [i \in 1..Len(s) |-> s[Len(s) + 1 - i]]

\* field_names_with_indices, were it not reversed
FieldNameMap_NotReversed(field_names) == CollectMap(NamesWithIndices(field_names), <<>>)

\* field_names_with_indices.reverse(); .into_iter().collect()
FieldNameMap(field_names) == CollectMap(Reversed(NamesWithIndices(field_names)), <<>>)

\* No OrcFile.
NoOrcFile ==
    [state |-> "none", type_kinds |-> <<>>, field_names |-> <<>>, field_name_map |-> <<>>,
     held |-> FALSE]

NoReturn ==
    [call |-> "none", tag |-> "None", kind |-> "", a |-> 0, b |-> 0, reads |-> 0,
     stripe |-> 0, column_id |-> 0, ranges |-> <<>>]

\* What a call returned, and how many messages and streams it has read from
\* the file, the ones that failed included; for read_column, the stripe (from
\* 1) and the column id it was called with, and the windows of the file it
\* has opened a Decompressor over.
Returned(call, r, reads) ==
    [call |-> call, tag |-> r.tag, kind |-> r.kind, a |-> r.a, b |-> r.b, reads |-> reads,
     stripe |-> 0, column_id |-> 0, ranges |-> <<>>]
ROk == [tag |-> "Ok", kind |-> "", a |-> 0, b |-> 0]
RPanic == [tag |-> "Panic", kind |-> "", a |-> 0, b |-> 0]

\* OrcFile::open(path): what it returns, whether the footer was read, and the
\* OrcFile if there is one.  The PostScript is "ok", "err" (not a PostScript
\* message) or "short" (the file is shorter than its last byte says).
OrcFileOpen(meta) ==
    LET kinds == ExtractColumnTypeKinds(meta.types)
        field_names == meta.types[1].field_names
        Out(r, footer_read, orc) == [ret |-> r, footer_read |-> footer_read, orc |-> orc]
    IN  CASE meta.postscript = "short" -> Out(RPanic, FALSE, NoOrcFile)
          [] meta.postscript = "err" -> Out(PErr("Protobuf", 0, 0), FALSE, NoOrcFile)
          [] meta.compression \notin SUPPORTED_COMPRESSION_KINDS ->
                Out(PErr("UnsupportedCompression", meta.compression, 0), FALSE, NoOrcFile)
          [] ~meta.footer_ok -> Out(PErr("Io", 0, 0), TRUE, NoOrcFile)
          [] kinds.tag # "Ok" -> Out(kinds, TRUE, NoOrcFile)
          [] meta.types = <<>> -> Out(PErr("InvalidMetadata", 0, 0), TRUE, NoOrcFile)
          [] OTHER ->
                Out(ROk, TRUE,
                    [state |-> "open", type_kinds |-> kinds.kinds,
                     field_names |-> field_names,
                     field_name_map |-> FieldNameMap(field_names), held |-> TRUE])

\* ColumnDataStreamInfo::default()
NoStreamInfo == [present_len |-> 0, data_len |-> 0, dictionary_data_len |-> 0, length_len |-> 0]

\* a + b on u64, for lengths and offsets within 2^31 of 0 or of 2^64: a
\* number below zero stands for the u64 that is 2^64 more, so that the sum of
\* the numbers stands for the wrapped sum, and the exact sum does not fit
\* when both are below zero or one is and the sum is not.
LenAdd(a, b) == Arith(a + b, (a < 0 /\ b < 0) \/ ((a < 0) # (b < 0) /\ a + b >= 0))

\* a + b + c + .. on u64, from the left: the wrapped sum, and whether one of
\* the additions overflows.
RECURSIVE LenSum(_)
LenSum(terms) ==
    IF Len(terms) = 1 THEN Arith(terms[1], FALSE)
    ELSE LET front == LenSum(SubSeq(terms, 1, Len(terms) - 1))
             last == LenAdd(front.v, terms[Len(terms)])
         IN  Arith(last.v, front.overflow \/ last.overflow)

\* The sum, were length_len left out of it
StreamInfoLen_NoLength(info) ==
    LenSum(<<info.present_len, info.data_len, info.dictionary_data_len>>)

\* ColumnDataStreamInfo::len
StreamInfoLen(info) ==
    LenSum(<<info.present_len, info.data_len, info.dictionary_data_len, info.length_len>>)

\* The match, were it without the arm of LENGTH
StreamField_NoLength(kind) ==
    CASE kind = "DATA" -> "data_len"
      [] kind = "PRESENT" -> "present_len"
      [] kind = "DICTIONARY_DATA" -> "dictionary_data_len"
      [] OTHER -> ""

\* The field a stream of one of the four kinds is put into.
StreamField(kind) ==
    CASE kind = "DATA" -> "data_len"
      [] kind = "LENGTH" -> "length_len"
      [] kind = "PRESENT" -> "present_len"
      [] kind = "DICTIONARY_DATA" -> "dictionary_data_len"
      [] OTHER -> ""

\* The arm of the match, were the length added to the field
PutStream_Added(infos, stream) ==
    [infos EXCEPT ![stream.column][StreamField(stream.kind)] = @ + stream.length]

\* column_data_stream_infos[column_id - 1].<field> = length; infos is
\* indexed from 1, so that infos[column_id] is the code's [column_id - 1].
PutStream(infos, stream) ==
    [infos EXCEPT ![stream.column][StreamField(stream.kind)] = stream.length]

\* for stream in stripe_footer.get_streams() { .. }: a stream of one of the
\* four kinds whose column is 0, or beyond the columns, panics the indexing.
RECURSIVE StreamLoop(_, _, _)
StreamLoop(streams, i, infos) ==
    IF i > Len(streams) THEN [tag |-> "Ok", infos |-> infos]
    ELSE IF StreamField(streams[i].kind) = "" THEN StreamLoop(streams, i + 1, infos)
    ELSE IF streams[i].column \notin 1..Len(infos) THEN [tag |-> "Panic", infos |-> infos]
    ELSE StreamLoop(streams, i + 1, PutStream(infos, streams[i]))

\* encoding_kind.into(): IntegerRleVersion (src/rle/mod.rs)
RleVersionOf(encoding_kind) == IF encoding_kind \in {"DIRECT", "DICTIONARY"} THEN 1 ELSE 2

\* A ColumnInfo; present_len 0 stands for None, and the fields a variant does
\* not have are 0.
ColumnInfo(tag, offset, info, encoding) ==
    [tag |-> tag, offset |-> offset, present_len |-> info.present_len,
     data_len |-> info.data_len,
     dictionary_data_len |-> IF tag = "Utf8Dictionary" THEN info.dictionary_data_len ELSE 0,
     length_len |-> IF tag \in {"Utf8Direct", "Utf8Dictionary"} THEN info.length_len ELSE 0,
     version |-> IF tag = "Bool" THEN 0 ELSE RleVersionOf(encoding.kind),
     dictionary_size |-> IF tag = "Utf8Dictionary" THEN encoding.dictionary_size ELSE 0]

\* match (type_kind, column_encoding.get_kind()) { .. }
PlanColumn(type_kind, encoding, info, offset) ==
    LET Ok(tag) == [tag |-> "Ok", column |-> ColumnInfo(tag, offset, info, encoding)]
        direct == encoding.kind \in {"DIRECT", "DIRECT_V2"}
    IN  CASE type_kind \in {"LONG", "INT"} ->
                IF info.dictionary_data_len # 0 \/ info.length_len # 0 \/ ~direct
                THEN PErr("InvalidMetadata", 0, 0) ELSE Ok("U64")
          [] type_kind = "BOOLEAN" /\ encoding.kind = "DIRECT" ->
                IF info.dictionary_data_len # 0 \/ info.length_len # 0
                THEN PErr("InvalidMetadata", 0, 0) ELSE Ok("Bool")
          [] type_kind = "STRING" /\ direct ->
                IF info.dictionary_data_len # 0
                THEN PErr("InvalidMetadata", 0, 0) ELSE Ok("Utf8Direct")
          [] type_kind = "STRING" -> Ok("Utf8Dictionary")
          [] OTHER -> PErr("UnsupportedType", type_kind, 0)

\* current_offset += stream_info.len()
NextOffset(current_offset, info) ==
    LET len == StreamInfoLen(info)
        sum == LenAdd(current_offset, len.v)
    IN  Arith(sum.v, len.overflow \/ sum.overflow)

\* .skip(1).zip(&self.type_kinds).zip(column_data_stream_infos).map(..)
\* .collect(): column j of the zip, from 1, is encoding j + 1, type kind j and
\* stream info j.  The closure makes the result of the column, adds to
\* current_offset, which panics on overflow in a build with overflow checks,
\* and returns the result; the first error ends the collect.
RECURSIVE PlanColumns(_, _, _, _, _, _, _)
PlanColumns(encodings, type_kinds, infos, j, current_offset, columns, checks) ==
    IF j > Min(Len(encodings) - 1, Len(type_kinds)) THEN [tag |-> "Ok", columns |-> columns]
    ELSE LET r == PlanColumn(type_kinds[j], encodings[j + 1], infos[j], current_offset)
             next == NextOffset(current_offset, infos[j])
         IN  IF next.overflow /\ checks THEN RPanic
             ELSE IF r.tag # "Ok" THEN r
             ELSE PlanColumns(encodings, type_kinds, infos, j + 1, next.v,
                              Append(columns, r.column), checks)

\* The closure of get_stripe_info for one stripe.
PlanStripe(stripe, type_kinds, checks) ==
    LET loop == StreamLoop(stripe.streams, 1, [j \in 1..Len(stripe.columns) |-> NoStreamInfo])
        columns == PlanColumns(stripe.columns, type_kinds, loop.infos, 1, 0, <<>>, checks)
    IN  IF loop.tag = "Panic" THEN RPanic
        ELSE IF columns.tag # "Ok" THEN columns
        ELSE [tag |-> "Ok",
              info |-> [row_count |-> stripe.number_of_rows,
                        data_start |-> stripe.offset + stripe.index_length,
                        data_len |-> stripe.data_length,
                        columns |-> columns.columns]]

\* .map(..).collect() over the stripe footers: the first error ends it.
RECURSIVE PlanStripes(_, _, _, _, _)
PlanStripes(stripes, type_kinds, i, plan, checks) ==
    IF i > Len(stripes) THEN [tag |-> "Ok", plan |-> plan]
    ELSE LET r == PlanStripe(stripes[i], type_kinds, checks)
         IN  IF r.tag # "Ok" THEN r
             ELSE PlanStripes(stripes, type_kinds, i + 1, Append(plan, r.info), checks)

\* get_stripe_footers: read_message for every stripe.  take_file fails when
\* the file is not there, and a read that fails does not put it back.
RECURSIVE GetStripeFooters(_, _, _)
GetStripeFooters(stripes, i, held) ==
    IF i > Len(stripes) THEN [ret |-> ROk, held |-> held, reads |-> i - 1]
    ELSE IF ~held THEN [ret |-> PErr("InvalidState", 0, 0), held |-> FALSE, reads |-> i - 1]
    ELSE IF ~stripes[i].footer_ok
    THEN [ret |-> PErr("Io", 0, 0), held |-> FALSE, reads |-> i]
    ELSE GetStripeFooters(stripes, i + 1, held)

\* get_stripe_info
GetStripeInfo(orc, meta, checks) ==
    LET footers == GetStripeFooters(meta.stripes, 1, orc.held)
        r == PlanStripes(meta.stripes, orc.type_kinds, 1, <<>>, checks)
    IN  IF footers.ret.tag # "Ok"
        THEN [ret |-> footers.ret, held |-> footers.held, reads |-> footers.reads,
              plan |-> <<>>]
        ELSE [ret |-> IF r.tag = "Ok" THEN ROk ELSE [tag |-> r.tag, kind |-> r.kind,
                                                      a |-> r.a, b |-> r.b],
              held |-> footers.held, reads |-> footers.reads,
              plan |-> IF r.tag = "Ok" THEN r.plan ELSE <<>>]

\* The streams read_column reads for a ColumnInfo, in the order it reads
\* them; the DATA stream of an integer or dictionary column and every LENGTH
\* stream go through read_u64s.
StreamOrder(info) ==
    (IF info.present_len # 0 THEN <<"present">> ELSE <<>>)
      \o CASE info.tag = "Bool" -> <<"data">>
           [] info.tag = "U64" -> <<"data">>
           [] info.tag = "Utf8Dictionary" -> <<"data", "length", "dictionary">>
           [] OTHER -> <<"data", "length">>

ThroughReadU64s(info, stream) ==
    \/ stream = "length"
    \/ stream = "data" /\ info.tag \in {"U64", "Utf8Dictionary"}

\* The read, were self.file = Some(decompressor.into_inner()) left out
ReadStream_NotPutBack(held, outcome, through_read_u64s) ==
    CASE ~held -> [ret |-> PErr("InvalidState", 0, 0), held |-> FALSE]
      [] outcome.tag = "io" -> [ret |-> PErr("Io", 0, 0), held |-> FALSE]
      [] outcome.tag = "rle" /\ through_read_u64s ->
            [ret |-> PErr("InvalidIntegerEncoding", 0, 0), held |-> FALSE]
      [] OTHER -> [ret |-> ROk, held |-> FALSE]

\* One stream read.  take_file fails when the file is not there; a failure
\* of Decompressor::open, of the read or of decode_u64s returns before
\* self.file is set again.
ReadStream(held, outcome, through_read_u64s) ==
    CASE ~held -> [ret |-> PErr("InvalidState", 0, 0), held |-> FALSE]
      [] outcome.tag = "io" -> [ret |-> PErr("Io", 0, 0), held |-> FALSE]
      [] outcome.tag = "rle" /\ through_read_u64s ->
            [ret |-> PErr("InvalidIntegerEncoding", 0, 0), held |-> FALSE]
      [] OTHER -> [ret |-> ROk, held |-> TRUE]

\* The len a stream of the column is opened with.
StreamLen(info, stream) ==
    CASE stream = "present" -> info.present_len
      [] stream = "data" -> info.data_len
      [] stream = "length" -> info.length_len
      [] OTHER -> info.dictionary_data_len

\* The position a stream of the column is opened at: stripe.data_start +
\* offset, + present_len.unwrap_or(0) for DATA, + data_len for LENGTH,
\* + length_len for DICTIONARY_DATA, on u64.
StreamStart(stripe_info, info, stream) ==
    LenSum(<<stripe_info.data_start, info.offset>>
             \o CASE stream = "present" -> <<>>
                  [] stream = "data" -> <<info.present_len>>
                  [] stream = "length" -> <<info.present_len, info.data_len>>
                  [] OTHER -> <<info.present_len, info.data_len, info.length_len>>)

\* The reads of read_column, one after the other; the first error ends them.
\* The position of a read is computed before the file is taken, and panics
\* on overflow in a build with overflow checks.  ranges are the windows
\* <<pos, len>> the Decompressors are opened over.
RECURSIVE ReadStreams(_, _, _, _, _, _, _, _)
ReadStreams(stripe_info, info, content, order, i, held, ranges, checks) ==
    IF i > Len(order) THEN [ret |-> ROk, held |-> held, reads |-> i - 1, ranges |-> ranges]
    ELSE LET start == StreamStart(stripe_info, info, order[i])
             r == ReadStream(held, content[order[i]], ThroughReadU64s(info, order[i]))
             opened == IF held THEN Append(ranges, <<start.v, StreamLen(info, order[i])>>)
                       ELSE ranges
         IN  IF start.overflow /\ checks
             THEN [ret |-> RPanic, held |-> held, reads |-> i - 1, ranges |-> ranges]
             ELSE IF r.ret.tag # "Ok"
             THEN [ret |-> r.ret, held |-> r.held, reads |-> i, ranges |-> opened]
             ELSE ReadStreams(stripe_info, info, content, order, i + 1, r.held, opened, checks)

\* The check, were a LENGTH stream of more entries than declared let through
DictionarySizeCheck_Fewer(dictionary_size, lengths) ==
    IF Len(lengths) < dictionary_size
    THEN PErr("InvalidDictionarySize", dictionary_size, Len(lengths))
    ELSE ROk

\* if *dictionary_size != lengths.len() as u32 { Err(InvalidDictionarySize
\* { expected, actual }) } else { Ok(..) }
DictionarySizeCheck(dictionary_size, lengths) ==
    IF dictionary_size # Len(lengths)
    THEN PErr("InvalidDictionarySize", dictionary_size, Len(lengths))
    ELSE ROk

\* read_column(stripe, column_id), the streams of the column decoding into
\* content.  lengths.len() as u32 is the length itself, the lengths of the
\* model being far below 2^32.  The Column returned is the make_*_column of
\* the streams read, which the column assemblers above model.
ReadColumnOf(stripe_info, column_id, contents, held, checks) ==
    IF column_id >= Len(stripe_info.columns)
    THEN [ret |-> PErr("InvalidColumnIndex", column_id, 0), held |-> held, reads |-> 0,
          ranges |-> <<>>]
    ELSE LET info == stripe_info.columns[column_id + 1]
             content == contents[column_id + 1]
             r == ReadStreams(stripe_info, info, content, StreamOrder(info), 1, held, <<>>,
                              checks)
         IN  IF r.ret.tag = "Ok" /\ info.tag = "Utf8Dictionary"
             THEN [r EXCEPT !.ret = DictionarySizeCheck(info.dictionary_size,
                                                        content["length"].u64s)]
             ELSE r

ParserIdle ==
    /\ p_meta = [postscript |-> "ok", compression |-> "NONE", footer_ok |-> TRUE,
                 types |-> <<>>, stripes |-> <<>>]
    /\ p_orc = NoOrcFile
    /\ p_plan = <<>>
    /\ p_ret = NoReturn

\* OrcFile::open
ParserOpen ==
    /\ p_orc.state = "none"
    /\ p_ret.call = "none"
    /\ \E r \in {OrcFileOpen(p_meta)} :
         /\ p_orc' = r.orc
         /\ p_ret' = Returned("open", r.ret, IF r.footer_read THEN 1 ELSE 0)
    /\ UNCHANGED <<p_meta, p_plan, parserOthers>>

\* OrcFile::get_stripe_info; the caller keeps the last StripeInfos returned.
ParserGetStripeInfo ==
    /\ p_orc.state = "open"
    /\ \E r \in {GetStripeInfo(p_orc, p_meta, overflow_checks)} :
         /\ p_orc' = [p_orc EXCEPT !.held = r.held]
         /\ p_plan' = IF r.ret.tag = "Ok" THEN r.plan ELSE p_plan
         /\ p_ret' = Returned("get_stripe_info", r.ret, r.reads)
    /\ UNCHANGED <<p_meta, parserOthers>>

\* OrcFile::read_column(&stripe_info[s - 1], column_id), for the column ids of
\* the schema and the one after them.
ParserReadColumn ==
    /\ p_orc.state = "open"
    /\ \E s \in 1..Len(p_plan), column_id \in 0..Len(p_orc.type_kinds) :
       \E r \in {ReadColumnOf(p_plan[s], column_id, p_meta.stripes[s].contents, p_orc.held,
                              overflow_checks)} :
         /\ p_orc' = [p_orc EXCEPT !.held = r.held]
         /\ p_ret' = [Returned("read_column", r.ret, r.reads) EXCEPT
                         !.stripe = s, !.column_id = column_id, !.ranges = r.ranges]
    /\ UNCHANGED <<p_meta, p_plan, parserOthers>>

NextParser == ParserOpen \/ ParserGetStripeInfo \/ ParserReadColumn

----------------------------------------------------------------------------
(* The files the parser is run on, as what their messages and streams hold *)

TypeNode(kind, field_names) == [kind |-> kind, field_names |-> field_names]

\* The field names of node 0: names repeated, names all different, no name.
FieldNameLists == {<<"a", "b", "a">>, <<"a", "b", "c">>, <<"b", "a", "a", "b">>, <<>>}

\* The kinds of the nodes after node 0.
OpenKindLists ==
    {<<>>, <<"LONG", "INT", "STRING", "BOOLEAN">>, <<"LONG", "DOUBLE", "TIMESTAMP">>,
     <<"TIMESTAMP">>, <<"STRING", "STRUCT">>}

Schema(root, field_names, kinds) ==
    <<TypeNode(root, field_names)>> \o [i \in 1..Len(kinds) |-> TypeNode(kinds[i], <<>>)]

\* Footers with no type at all, and with a node 0 of a kind that is and is
\* not one of the four.
OpenSchemas ==
    {<<>>} \cup {Schema(root, names, kinds) :
                    root \in {"STRUCT", "LONG", "DOUBLE"}, names \in FieldNameLists,
                    kinds \in OpenKindLists}

\* Files without stripes: every PostScript, compression and schema.
OpenMetas ==
    [postscript : {"ok", "err", "short"},
     compression : {"NONE", "ZLIB", "ZSTD", "SNAPPY", "LZO"},
     footer_ok : BOOLEAN, types : OpenSchemas, stripes : {<<>>}]

Encoding(kind, dictionary_size) == [kind |-> kind, dictionary_size |-> dictionary_size]

Stream(kind, column, length) == [kind |-> kind, column |-> column, length |-> length]

\* What reading a stream comes to: "ok" and the integers it decodes to, "io"
\* (the decompressor fails) or "rle" (decode_u64s returns None).
OkStream(u64s) == [tag |-> "ok", u64s |-> u64s]
FailingStream(tag) == [tag |-> tag, u64s |-> <<>>]

\* The streams of a column that all read, count integers in the LENGTH stream.
ContentOf(count) ==
    [stream \in {"present", "data", "length", "dictionary"} |->
        IF stream = "length" THEN OkStream([i \in 1..count |-> i]) ELSE OkStream(<<0, 1>>)]

\* Contents with a stream that fails, or with 2 or 3 or no lengths.
Contents ==
    {ContentOf(2), ContentOf(3), ContentOf(0)}
      \cup {[ContentOf(2) EXCEPT ![stream] = FailingStream(tag)] :
               stream \in {"present", "data", "length", "dictionary"}, tag \in {"io", "rle"}}

\* The streams a stripe footer lists for a column, as <<kind, length>>: the
\* last has LENGTH twice, the second time with length 0, and the first has
\* DATA twice.
StreamLists ==
    {<<<<"DATA", 5>>, <<"DATA", 2>>>>,
     <<<<"DATA", 5>>>>,
     <<<<"PRESENT", 1>>, <<"DATA", 5>>>>,
     <<<<"DATA", 5>>, <<"LENGTH", 3>>>>,
     <<<<"DATA", 5>>, <<"DICTIONARY_DATA", 4>>>>,
     <<<<"PRESENT", 1>>, <<"DATA", 5>>, <<"LENGTH", 3>>, <<"DICTIONARY_DATA", 4>>>>,
     <<<<"DATA", 5>>, <<"LENGTH", 3>>, <<"LENGTH", 0>>>>}

Encodings ==
    {Encoding("DIRECT", 0), Encoding("DIRECT_V2", 0), Encoding("DICTIONARY", 2),
     Encoding("DICTIONARY_V2", 2), Encoding("DICTIONARY_V2", 0)}

Shape(encoding, streams, content) ==
    [encoding |-> encoding, streams |-> streams, content |-> content]

\* A column as a writer makes it.
PlainShape(kind) ==
    CASE kind = "STRING" ->
            Shape(Encoding("DICTIONARY_V2", 2),
                  <<<<"DATA", 5>>, <<"LENGTH", 3>>, <<"DICTIONARY_DATA", 4>>>>, ContentOf(2))
      [] kind = "BOOLEAN" ->
            Shape(Encoding("DIRECT", 0), <<<<"PRESENT", 1>>, <<"DATA", 5>>>>, ContentOf(2))
      [] OTHER -> Shape(Encoding("DIRECT_V2", 0), <<<<"DATA", 5>>>>, ContentOf(2))

\* Every encoding with every list of streams, all of them reading; and the
\* plain column and the dictionary column with a PRESENT stream with every
\* content.
Shapes(kind) ==
    {Shape(encoding, streams, ContentOf(2)) : encoding \in Encodings, streams \in StreamLists}
      \cup {Shape(PlainShape(kind).encoding, PlainShape(kind).streams, content) :
               content \in Contents}
      \cup {Shape(Encoding("DICTIONARY", 3),
                  <<<<"PRESENT", 1>>, <<"DATA", 5>>, <<"LENGTH", 3>>, <<"DICTIONARY_DATA", 4>>>>,
                  content) : content \in Contents}

\* The streams of column j (from 1) of a stripe.
ColumnStreams(shape, j) ==
    [k \in 1..Len(shape.streams) |-> Stream(shape.streams[k][1], j, shape.streams[k][2])]

\* A stripe and its footer: the encoding of the struct column and then of
\* each column of shapes, all but the last when cut; the streams in extra and
\* then those of the columns; and what the streams of each column hold.
Stripe(shapes, extra, cut, footer_ok) ==
    LET encodings == <<Encoding("DIRECT", 0)>> \o [j \in 1..Len(shapes) |-> shapes[j].encoding]
        streams == Concat([j \in 1..Len(shapes) |-> ColumnStreams(shapes[j], j)])
    IN  [footer_ok |-> footer_ok, number_of_rows |-> 2, offset |-> 3, index_length |-> 7,
         data_length |-> SumSeq([k \in 1..Len(streams) |-> streams[k].length]),
         columns |-> IF cut THEN SubSeq(encodings, 1, Len(encodings) - 1) ELSE encodings,
         streams |-> extra \o streams,
         contents |-> [j \in 1..Len(shapes) |-> shapes[j].content]]

\* Streams a stripe footer lists in front of those of the columns: an index
\* stream and a PRESENT stream of the struct column, and a DATA stream of a
\* column after the last.
Extras(kinds) ==
    {<<>>, <<Stream("ROW_INDEX", 0, 7)>>, <<Stream("PRESENT", 0, 1)>>,
     <<Stream("DATA", Len(kinds) + 2, 5)>>}

PlainStripe(kinds) == Stripe([j \in 1..Len(kinds) |-> PlainShape(kinds[j])], <<>>, FALSE, TRUE)

\* Stripes that are plain but for one column, which has any shape.
FocusStripes(kinds) ==
    {Stripe([j \in 1..Len(kinds) |-> IF j = f THEN shape ELSE PlainShape(kinds[j])],
            extra, cut, TRUE) :
        f \in 1..Len(kinds), shape \in UNION {Shapes(kinds[j]) : j \in 1..Len(kinds)},
        extra \in Extras(kinds), cut \in BOOLEAN}

\* The stripes around it: plain, plain with a footer that cannot be read, and
\* with a BOOLEAN-typed first column of encoding DIRECT_V2 where there is one.
OtherStripes(kinds) ==
    {PlainStripe(kinds), [PlainStripe(kinds) EXCEPT !.footer_ok = FALSE],
     [PlainStripe(kinds) EXCEPT !.columns[2] = Encoding("DIRECT_V2", 0)]}

\* The most stripes of a file.
MaxFileStripes == 2

\* One stripe of FocusStripes among stripes of OtherStripes.
StripeLists(kinds) ==
    {[i \in 1..n |-> IF i = at THEN focus ELSE other] :
        n \in 1..MaxFileStripes, at \in 1..MaxFileStripes, focus \in FocusStripes(kinds),
        other \in OtherStripes(kinds)}

\* The kinds of the columns of the files with stripes.
StripeKindLists ==
    {<<"LONG">>, <<"BOOLEAN", "LONG">>, <<"STRING", "INT">>, <<"BOOLEAN", "STRING", "LONG">>}

\* Files with stripes.
StripeMetas ==
    UNION {[postscript : {"ok"}, compression : {"ZLIB"}, footer_ok : {TRUE},
            types : {Schema("STRUCT", <<"a", "b", "a">>, kinds)},
            stripes : StripeLists(kinds)] : kinds \in StripeKindLists}

\* No OrcFile yet, and a file to open.
ParserStart ==
    /\ p_meta \in OpenMetas \cup StripeMetas
    /\ p_orc = NoOrcFile
    /\ p_plan = <<>>
    /\ p_ret = NoReturn

----------------------------------------------------------------------------
(* Files whose stripes plan without error, with stream lengths of every size *)

\* The streams of a column with these four lengths; a length of 0 is a
\* stream that is not listed, but for DATA.
StreamsOf(present_len, data_len, length_len, dictionary_data_len) ==
    (IF present_len = 0 THEN <<>> ELSE <<<<"PRESENT", present_len>>>>)
      \o <<<<"DATA", data_len>>>>
      \o (IF length_len = 0 THEN <<>> ELSE <<<<"LENGTH", length_len>>>>)
      \o (IF dictionary_data_len = 0 THEN <<>> ELSE <<<<"DICTIONARY_DATA", dictionary_data_len>>>>)

\* The lengths a DATA stream is declared with: -1 stands for 2^64 - 1.
DataLens == {0, 5, -1}

\* The columns of a kind that get_stripe_info makes a ColumnInfo of: with and
\* without a PRESENT stream, direct and dictionary strings, and a
\* dictionary of 2^64 - 2 bytes.
PlannedShapes(kind) ==
    IF kind = "STRING"
    THEN {Shape(Encoding("DIRECT_V2", 0), StreamsOf(p, d, l, 0), ContentOf(2)) :
             p \in {0, 1}, d \in DataLens, l \in {0, 3}}
           \cup {Shape(Encoding("DICTIONARY_V2", 2), StreamsOf(p, d, 3, dd), ContentOf(2)) :
                    p \in {0, 1}, d \in DataLens, dd \in {4, -2}}
    ELSE {Shape(Encoding(IF kind = "BOOLEAN" THEN "DIRECT" ELSE "DIRECT_V2", 0),
                StreamsOf(p, d, 0, 0), ContentOf(2)) : p \in {0, 1}, d \in DataLens}

\* The stripes of columns of these kinds, each of any of its shapes.
PlannedStripes(kinds) ==
    {Stripe(shapes, <<>>, FALSE, TRUE) :
        shapes \in {sh \in [1..Len(kinds) -> UNION {PlannedShapes(kinds[j]) : j \in 1..Len(kinds)}] :
                       \A j \in 1..Len(kinds) : sh[j] \in PlannedShapes(kinds[j])}}

\* One stripe of PlannedStripes among plain stripes.
PlannedStripeLists(kinds) ==
    {[i \in 1..n |-> IF i = at THEN stripe ELSE PlainStripe(kinds)] :
        n \in 1..MaxFileStripes, at \in 1..MaxFileStripes, stripe \in PlannedStripes(kinds)}

PlannedKindLists == {<<"LONG", "STRING">>, <<"STRING", "BOOLEAN">>, <<"INT", "BOOLEAN", "LONG">>}

PlannedMetas ==
    UNION {[postscript : {"ok"}, compression : {"ZLIB"}, footer_ok : {TRUE},
            types : {Schema("STRUCT", <<"a", "b", "c">>, kinds)},
            stripes : PlannedStripeLists(kinds)] : kinds \in PlannedKindLists}

\* No OrcFile yet, and a file of PlannedMetas to open.
PlannedStart ==
    /\ p_meta \in PlannedMetas
    /\ p_orc = NoOrcFile
    /\ p_plan = <<>>
    /\ p_ret = NoReturn
----------------------------------------------------------------------------
(* The specifications, one per component *)

InitByte ==
    /\ bw_input \in SeqsUpTo(ByteAlphabet, MaxByteInput)
    /\ bw_pos = 0
    /\ bw_state = AwaitingControl
    /\ bw_out = <<>>
    /\ bw_ret = -1
    /\ bw_buflen = -1
    /\ bw_cuts = {}
    /\ overflow_checks = FALSE
    /\ ColIdle
    /\ RowsIdle
    /\ IntIdle
    /\ DcIdle
    /\ ParserIdle

SpecByte == InitByte /\ [][NextByte]_vars


InitColumn ==
    /\ ByteIdle
    /\ overflow_checks \in BOOLEAN
    /\ ColStart
    /\ RowsIdle
    /\ IntIdle
    /\ DcIdle
    /\ ParserIdle

SpecColumn == InitColumn /\ [][NextColumn]_vars

InitRows ==
    /\ ByteIdle
    /\ overflow_checks = FALSE
    /\ ColIdle
    /\ RowsStart
    /\ IntIdle
    /\ DcIdle
    /\ ParserIdle

SpecRows == InitRows /\ [][NextRows]_vars

InitInt ==
    /\ ByteIdle
    /\ overflow_checks \in BOOLEAN
    /\ ColIdle
    /\ RowsIdle
    /\ IntStart
    /\ DcIdle
    /\ ParserIdle

SpecInt == InitInt /\ [][NextInt]_vars

InitDirect ==
    /\ ByteIdle
    /\ overflow_checks \in BOOLEAN
    /\ ColIdle
    /\ RowsIdle
    /\ DirectStart
    /\ DcIdle
    /\ ParserIdle

SpecDirect == InitDirect /\ [][NextInt]_vars

InitPatched ==
    /\ ByteIdle
    /\ overflow_checks \in BOOLEAN
    /\ ColIdle
    /\ RowsIdle
    /\ PatchedStart
    /\ DcIdle
    /\ ParserIdle

SpecPatched == InitPatched /\ [][NextInt]_vars

InitDelta ==
    /\ ByteIdle
    /\ overflow_checks \in BOOLEAN
    /\ ColIdle
    /\ RowsIdle
    /\ DeltaStart
    /\ DcIdle
    /\ ParserIdle

SpecDelta == InitDelta /\ [][NextInt]_vars

InitDc ==
    /\ ByteIdle
    /\ overflow_checks \in BOOLEAN
    /\ ColIdle
    /\ RowsIdle
    /\ IntIdle
    /\ DcStart
    /\ ParserIdle

SpecDc == InitDc /\ [][NextDc]_vars

\* Nothing the parser does depends on the build.
InitParser ==
    /\ ByteIdle
    /\ overflow_checks = FALSE
    /\ ColIdle
    /\ RowsIdle
    /\ IntIdle
    /\ DcIdle
    /\ ParserStart

SpecParser == InitParser /\ [][NextParser]_vars

InitPlanned ==
    /\ ByteIdle
    /\ overflow_checks \in BOOLEAN
    /\ ColIdle
    /\ RowsIdle
    /\ IntIdle
    /\ DcIdle
    /\ PlannedStart

SpecPlanned == InitPlanned /\ [][NextParser]_vars

InitFrames ==
    /\ ByteIdle
    /\ overflow_checks \in BOOLEAN
    /\ ColIdle
    /\ RowsIdle
    /\ FramesStart
    /\ DcIdle
    /\ ParserIdle

SpecFrames == InitFrames /\ [][NextInt]_vars
----------------------------------------------------------------------------
(* Byte RLE: the claims *)

\* The decoding the format prescribes: a control byte C < 128 repeats the next
\* byte C + 3 times, a control byte C >= 128 copies the next 256 - C bytes.
RECURSIVE RefByteDecode(_)
RefByteDecode(bytes) ==
    IF bytes = <<>> THEN <<>>
    ELSE LET C == bytes[1]
         IN  IF C < 128
             THEN IF Len(bytes) < 2 THEN <<>>
                  ELSE Repeat(bytes[2], C + 3) \o RefByteDecode(SubSeq(bytes, 3, Len(bytes)))
             ELSE LET n == Min(256 - C, Len(bytes) - 1)
                  IN  SubSeq(bytes, 2, 1 + n)
                        \o RefByteDecode(SubSeq(bytes, 2 + n, Len(bytes)))

\* The input consists of complete frames.
RECURSIVE RefByteComplete(_)
RefByteComplete(bytes) ==
    IF bytes = <<>> THEN TRUE
    ELSE LET C == bytes[1]
             frame == IF C < 128 THEN 2 ELSE 1 + (256 - C)
         IN  /\ Len(bytes) >= frame
             /\ RefByteComplete(SubSeq(bytes, frame + 1, Len(bytes)))

BwFed == SubSeq(bw_input, 1, bw_pos)

\* C7: whenever the bytes written so far form complete frames, the bytes
\* ByteWriter has written downstream are the reference decoding of them (a
\* control byte C < 128 repeats the next byte C + 3 times, a control byte
\* C >= 128 copies the next 256 - C bytes) and the next byte is a control byte.
C7_ByteRleDecodesFrames ==
    RefByteComplete(BwFed) =>
        /\ bw_out = RefByteDecode(BwFed)
        /\ bw_state = AwaitingControl

\* A literal of two bytes and a run of 130, fed in more than one write.
C7_Witness ==
    /\ bw_input = <<254, 127, 128, 127, 128>>
    /\ bw_pos = 5
    /\ bw_cuts = {1, 4, 5}
    /\ bw_out = <<127, 128>> \o Repeat(128, 130)

\* C8: however the input is split into write calls, the bytes written
\* downstream (and the decoder state) after any number of calls are those of
\* one write of all the bytes handed over so far, and every call returns the
\* length of its buffer.
C8_ByteRleChunkIndependent ==
    LET whole == ByteWrite(AwaitingControl, <<>>, BwFed)
    IN  /\ bw_out = whole.out
        /\ bw_state = whole.state
        /\ bw_ret = bw_buflen

\* A two-byte literal and a run, cut between the literal's two bytes and
\* between the run's control byte and its value.
C8_Witness ==
    /\ bw_input = <<254, 127, 128, 127, 254>>
    /\ bw_cuts = {2, 4, 5}
    /\ bw_pos = 5
    /\ bw_ret = 1
    /\ bw_out = <<127, 128>> \o Repeat(254, 130)

----------------------------------------------------------------------------
(* Columns: the claims *)

\* The number of terms that stand for a u64 of 2^63 or more.
Tops(terms) == Cardinality({i \in 1..Len(terms) : terms[i] < 0})

\* The exact sums of two lists of u64 are equal: a term below zero is 2^64
\* more than its number, and the numbers are all within 2^31 of 0.
SameExactSum(left, right) == SumSeq(left) = SumSeq(right) /\ Tops(left) = Tops(right)

\* The number of present rows the streams of a column must describe.
PresentCount(in) == IF in.has_present THEN CountOnes(in.present) ELSE in.row_count

\* PRESENT bit r (MSB first, r from 0) is 1; a bit past the end of the
\* stream counts as 0.
PresentBit(in, r) ==
    /\ r < 8 * Len(in.present)
    /\ BitsOf(in.present)[r + 1] = 1

\* No 1 bit of PRESENT lies at a bit index at or beyond row_count.
PresentWithinRows(in) ==
    \A r \in 0..8 * Len(in.present) - 1 : PresentBit(in, r) => r < in.row_count

\* The streams are those an ORC writer produces for row_count rows: PRESENT
\* is ceil(row_count / 8) bytes padded with 0 bits, DATA (and LENGTH) hold one
\* entry per present row, string bytes are exactly the strings, valid UTF-8,
\* and every dictionary code names a dictionary entry.
WellFormedInput(in) ==
    /\ in.has_present =>
          /\ Len(in.present) = (in.row_count + 7) \div 8
          /\ PresentWithinRows(in)
    /\ CASE in.kind = "U64" -> Len(in.u64s) = PresentCount(in)
         [] in.kind = "Bool" -> Len(in.bytes) = (PresentCount(in) + 7) \div 8
         [] in.kind = "Utf8Direct" ->
                /\ Len(in.lengths) = PresentCount(in)
                /\ in.bytes = Text(SumSeq(in.lengths))
         [] in.kind = "Utf8Dictionary" ->
                /\ Len(in.u64s) = PresentCount(in)
                /\ \A i \in 1..Len(in.u64s) : in.u64s[i] < Len(in.lengths)
         [] OTHER -> FALSE

\* C1 (as claimed, for columns materialized from well-formed streams): every
\* Column::get(row) returns Some when row < row_count and None, without
\* panicking, when row >= row_count.
C1_GetSomeBelowNoneBeyond ==
    (c_get.row >= 0 /\ WellFormedInput(c_in)) =>
        IF c_get.row < ColumnRowCount(c_col)
        THEN c_get.res.tag = "Some"
        ELSE c_get.res.tag = "None"

\* PresentInfoWriter::into_inner has returned (or panicked).
NullRunsRead == c_in.has_present /\ c_phase # "present"

\* What C5 says of the vector into_inner returns.
NullRunsAddUp ==
    /\ c_null.tag = "Some"
    /\ ~c_null.wrapped
    /\ Len(c_null.null_runs) = CountOnes(c_in.present) + 1
    /\ SumSeq(c_null.null_runs) + CountOnes(c_in.present) = c_in.row_count

\* C5 (as claimed): for any decoded PRESENT byte sequence, written in any
\* number of write calls, into_inner returns a vector with (number of 1
\* bits) + 1 entries whose sum plus the number of 1 bits is row_count.
C5_AnyPresentBytes == NullRunsRead => NullRunsAddUp

\* C5 (amended): the same, for every decoded PRESENT byte sequence none of
\* whose 1 bits lies at a bit index at or beyond row_count.
C5_NullRunsAddUp == (NullRunsRead /\ PresentWithinRows(c_in)) => NullRunsAddUp

\* Ten rows, rows 0 and 2 of the first byte present,
\* the second byte empty, written in two calls, the first of one byte.
C5_Witness ==
    /\ NullRunsRead
    /\ c_in.row_count = 10
    /\ c_in.present = <<160, 0>>
    /\ c_cuts = {1, 2}
    /\ c_null.null_runs = <<0, 1, 7>>

\* Row r of the materialized column reads as Null.
RowIsNull(r) ==
    LET res == ColumnGet(c_col, r)
    IN  res.tag = "Some" /\ res.value.t = "Null"

NonNullRows == {r \in 0..c_in.row_count - 1 : ~RowIsNull(r)}

\* What C6 says of a column read with a PRESENT stream.
NullsFollowPresent ==
    /\ Cardinality(NonNullRows) = CountOnes(c_in.present)
    /\ \A r \in 0..c_in.row_count - 1 : RowIsNull(r) <=> ~PresentBit(c_in, r)

ColumnRead == c_in.has_present /\ c_phase = "get"

EnoughData(in) ==
    CASE in.kind = "U64" -> Len(in.u64s) >= CountOnes(in.present)
      [] in.kind = "Bool" -> 8 * Len(in.bytes) >= CountOnes(in.present)
      [] in.kind = "Utf8Direct" -> Len(in.lengths) >= CountOnes(in.present)
      [] in.kind = "Utf8Dictionary" -> Len(in.u64s) >= CountOnes(in.present)
      [] OTHER -> FALSE

\* No LENGTH value of a direct string column and no code of a dictionary
\* column is 2^63 or more: cast to i64 such a value is below zero, and -1 is
\* what the column keeps for a null row.
BelowSentinel(in) ==
    /\ in.kind = "Utf8Direct" => \A i \in 1..Len(in.lengths) : in.lengths[i] >= 0
    /\ in.kind = "Utf8Dictionary" => \A i \in 1..Len(in.u64s) : in.u64s[i] >= 0

U64Made == c_in.kind = "U64" /\ c_col.kind = "U64"

\* The index, from 0, that C23 gives the k-th decoded value, k from 0, under
\* the mask: k + n0 + ... + nk.
WovenIndex(mask, k) == k + SumSeq(SubSeq(mask, 1, k + 1))

\* C23: make_u64_column with a mask n0..nP that is not empty and P decoded
\* values returns value and null vectors of length P + sum(n); the k-th
\* decoded value is at index k + n0 + ... + nk with its null bit clear, and
\* every other index holds 0 with its null bit set.  With an empty mask it
\* returns the values as they are and no null vector.
C23_NullsWovenIntoValues ==
    U64Made =>
       IF c_null.null_runs = <<>>
       THEN c_col.values = c_in.u64s /\ ~c_col.has_nulls
       ELSE Len(c_in.u64s) = Len(c_null.null_runs) - 1 =>
               LET P == Len(c_in.u64s)
                   mask == c_null.null_runs
                   taken == {WovenIndex(mask, k) : k \in 0..(P - 1)}
               IN  /\ c_col.has_nulls
                   /\ Len(c_col.values) = P + SumSeq(mask)
                   /\ Len(c_col.nulls) = P + SumSeq(mask)
                   /\ \A k \in 0..(P - 1) :
                         /\ c_col.values[WovenIndex(mask, k) + 1] = c_in.u64s[k + 1]
                         /\ ~c_col.nulls[WovenIndex(mask, k) + 1]
                   /\ \A i \in 0..(P + SumSeq(mask) - 1) :
                         i \notin taken => (c_col.values[i + 1] = 0 /\ c_col.nulls[i + 1])

\* Ten rows of which rows 0 and 2 are present, and the two values 11 and 12.
C23_Witness ==
    /\ U64Made
    /\ c_null.null_runs = <<0, 1, 7>>
    /\ c_in.u64s = <<11, 12>>
    /\ c_col.values = <<11, 0, 12, 0, 0, 0, 0, 0, 0, 0>>
    /\ c_col.nulls = <<FALSE, TRUE, FALSE, TRUE, TRUE, TRUE, TRUE, TRUE, TRUE, TRUE>>

\* BoolWriter::finish has returned the column of streams as a writer makes
\* them: DATA is ceil(present_count / 8) bytes.
BoolMade == c_in.kind = "Bool" /\ c_col.kind = "Bool" /\ WellFormedInput(c_in)

\* C24 as stated: the value bit vector of the column holds exactly row_count
\* bits, and so does its null bit vector when there is a mask.
C24_ExactlyRowCountBits ==
    BoolMade =>
       /\ Len(c_col.values) = c_in.row_count
       /\ c_in.has_present => (c_col.has_nulls /\ Len(c_col.nulls) = c_in.row_count)

\* The bits of the last DATA byte that stand for no row.
PaddingBits(in) == 8 * Len(in.bytes) - PresentCount(in)

\* The number of present rows before row r.
PresentBefore(in, r) ==
    IF in.has_present THEN Cardinality({q \in 0..(r - 1) : PresentBit(in, q)}) ELSE r

\* C24 amended: BoolWriter pushes a bit for each of the 8 bits of every DATA
\* byte.  Without a mask the value vector holds row_count bits and the
\* padding bits of the last byte.  With a mask the null vector holds
\* row_count bits and the padding bits; the value vector holds as many when
\* there are padding bits, and row_count less the last null run when there
\* are none, finish pushing that run to the null vector only.  The bits of
\* the rows come first and in row order: a null row has its null bit set
\* and, where it has a value bit, a false one; the k-th present row has its
\* null bit clear and the k-th DATA bit as value.
C24_BoolVectorsCoverRows ==
    BoolMade =>
       LET pad == PaddingBits(c_in)
           rows == c_in.row_count
           mask == c_null.null_runs
       IN  /\ c_col.row_count = rows
           /\ c_col.has_nulls = c_in.has_present
           /\ ~c_in.has_present => Len(c_col.values) = rows + pad
           /\ c_in.has_present =>
                 /\ Len(c_col.nulls) = rows + pad
                 /\ Len(c_col.values) = IF pad > 0 THEN rows + pad ELSE rows - mask[Len(mask)]
           /\ \A r \in 0..(rows - 1) :
                 IF c_in.has_present /\ ~PresentBit(c_in, r)
                 THEN /\ c_col.nulls[r + 1]
                      /\ r < Len(c_col.values) => ~c_col.values[r + 1]
                 ELSE /\ c_in.has_present => ~c_col.nulls[r + 1]
                      /\ c_col.values[r + 1]
                           = (BitsOf(c_in.bytes)[PresentBefore(c_in, r) + 1] = 1)

\* Ten rows of which rows 0 and 2 are present: one DATA byte, six padding
\* bits, and vectors of sixteen bits.
C24_Witness ==
    /\ BoolMade
    /\ c_in.row_count = 10
    /\ c_in.present = <<160, 0>>
    /\ c_in.bytes = <<165>>
    /\ Len(c_col.values) = 16
    /\ Len(c_col.nulls) = 16

\* make_utf8_direct_column has returned a column of streams as a writer lays
\* them out: one LENGTH value per present row.
Utf8DirectMade ==
    /\ c_in.kind = "Utf8Direct"
    /\ c_col.kind = "Utf8Direct"
    /\ c_in.has_present =>
          /\ Len(c_in.present) = (c_in.row_count + 7) \div 8
          /\ PresentWithinRows(c_in)
    /\ Len(c_in.lengths) = PresentCount(c_in)

\* Row r is present: there is no mask, or its PRESENT bit is 1.
RowPresent(in, r) == in.has_present => PresentBit(in, r)

\* One index entry per row; a null row has start -1; the k-th present row
\* has the k-th LENGTH value for len and the exact sum of the earlier LENGTH
\* values for start.
IndexEntriesFollowLengths ==
    /\ Len(c_col.indices) = c_in.row_count
    /\ \A r \in 0..c_in.row_count - 1 :
          LET entry == c_col.indices[r + 1]
              k == PresentBefore(c_in, r)
              earlier == SubSeq(c_in.lengths, 1, k)
          IN  IF RowPresent(c_in, r)
              THEN /\ entry[2] = c_in.lengths[k + 1]
                   /\ entry[1] = SumSeq(earlier)
                   /\ Tops(earlier) = 0
              ELSE entry[1] = -1

\* The spans of the present rows lie one after the other from byte 0 of
\* DATA, in row order: each starts where the one before it ends.
SpansContiguous ==
    \A r \in 0..c_in.row_count - 1 :
        RowPresent(c_in, r) =>
            LET before == {q \in 0..r - 1 : RowPresent(c_in, q)}
            IN  IF before = {} THEN c_col.indices[r + 1][1] = 0
                ELSE LET q == CHOOSE x \in before : \A y \in before : y <= x
                     IN  /\ c_col.indices[q + 1][2] >= 0
                         /\ c_col.indices[r + 1][1]
                              = c_col.indices[q + 1][1] + c_col.indices[q + 1][2]

----------------------------------------------------------------------------
(* Integer RLE: the claims *)

\* The number of bytes of the LEB128 varint that starts at bytes[at], or 0 if
\* none of the ten bytes from there on ends it.
RefVarintLen(bytes, at) ==
    LET ends == {n \in 1..10 : at + n - 1 <= Len(bytes) /\ bytes[at + n - 1] < 128}
    IN  IF ends = {} THEN 0 ELSE CHOOSE n \in ends : \A m \in ends : n <= m

\* The value of the varint of n bytes that starts at bytes[at]: seven bits a
\* byte, the least significant group first, as much of it as 64 bits hold.
RECURSIVE RefVarintValue(_, _, _)
RefVarintValue(bytes, at, n) ==
    IF n = 0 THEN U64Zero
    ELSE AddCarry(RefVarintValue(bytes, at, n - 1),
                  Shl(U64Of(bytes[at + n - 1] % 128), 7 * (n - 1))).v

\* base + i * delta in 64 bits, wrapping.
RefRunValue(base, delta, i) == AddCarry(base, I64Of(i * delta)).v

\* Where the varints of a literal end: the i-th one at the i-th byte below
\* 128 after the header; 0 where there is no such byte.
RefLiteralEnds(bytes, n) ==
    LET EndsGiven(before) ==
            [i \in 1..n |-> IF \E j \in 2..Len(bytes) : bytes[j] < 128 /\ before[j] = i - 1
                            THEN CHOOSE j \in 2..Len(bytes) :
                                     bytes[j] < 128 /\ before[j] = i - 1
                            ELSE 0]
    IN  Only({EndsGiven(before) :
                before \in {[j \in 1..Len(bytes) |->
                               Cardinality({k \in 2..(j - 1) : bytes[k] < 128})]}})

\* A literal of n values after the header, each a varint of at most ten bytes.
RefV1Literal(bytes, n) ==
    LET Given(end) ==
            LET start == [i \in 1..n |-> IF i = 1 THEN 2 ELSE end[i - 1] + 1]
                legal == \A i \in 1..n : end[i] # 0 /\ end[i] - start[i] < 10
            IN  [legal |-> legal,
                 values |-> IF legal
                            THEN [i \in 1..n |->
                                    RefVarintValue(bytes, start[i], end[i] - start[i] + 1)]
                            ELSE <<>>,
                 consumed |-> end[n]]
    IN  Only({Given(end) : end \in {RefLiteralEnds(bytes, n)}})

\* What the format prescribes for the frame at the head of bytes: whether it
\* is a whole frame, its values and its length.
RefV1Frame(bytes) ==
    LET H == bytes[1]
    IN  IF H < 128
        THEN LET len == IF Len(bytes) < 3 THEN 0 ELSE RefVarintLen(bytes, 3)
                 base == RefVarintValue(bytes, 3, len)
                 delta == IF bytes[2] < 128 THEN bytes[2] ELSE bytes[2] - 256
             IN  [legal |-> len > 0,
                  values |-> IF len > 0
                             THEN [i \in 1..(H + 3) |-> RefRunValue(base, delta, i - 1)]
                             ELSE <<>>,
                  consumed |-> 2 + len]
        ELSE RefV1Literal(bytes, 256 - H)

\* The first turn of decode_u64s's loop is over.
FirstFrameRead == i_frames # <<>> /\ (i_pos > 0 \/ i_status # "running")

\* C9: an integer RLE v1 frame with header H < 128, a signed 8-bit delta and
\* an unsigned varint base emits exactly the H + 3 values base, base + delta,
\* base + 2 * delta, ... wrapped in 64 bits; a frame with header H >= 128
\* emits exactly 256 - H values, each one unsigned varint; and the length
\* returned for the frame is the header plus the bytes read.
C9_V1FrameValuesAndLength ==
    (i_version = 1 /\ FirstFrameRead /\ RefV1Frame(i_frames[1]).legal) =>
        LET ref == RefV1Frame(i_frames[1])
        IN  /\ i_reads # <<>>
            /\ i_reads[1] = ref.consumed
            /\ Len(i_values) >= Len(ref.values)
            /\ SubSeq(i_values, 1, Len(ref.values)) = ref.values

LoneValues(frame) == DecodeU64s(i_version, frame, i_signed, overflow_checks)

\* Every frame of the input decodes on its own.
EveryFrameLegal == \A k \in 1..Len(i_frames) : LoneValues(i_frames[k]).tag = "Some"

ConcatenatedValues == Concat([k \in 1..Len(i_frames) |-> LoneValues(i_frames[k]).values])

\* C10: for both decoders, when decode_u64s has ended on the concatenation
\* of frames each of which decodes on its own, it has returned the values of
\* the first frame followed by those of the second, and so on.
C10_Concatenation ==
    (i_status \notin {"idle", "running"} /\ EveryFrameLegal) =>
        /\ i_status = "some"
        /\ i_values = ConcatenatedValues

\* The v2 test vectors DIRECT_INPUT and then DELTA_INPUT, decoded as unsigned.
C10_Witness ==
    /\ i_version = 2
    /\ ~i_signed
    /\ i_frames = <<DIRECT_INPUT, DELTA_INPUT>>
    /\ i_status = "some"
    /\ i_reads = <<10, 8>>
    /\ Len(i_values) = 14
    /\ i_values[4] = U64Of(48879)
    /\ i_values[14] = U64Of(29)
----------------------------------------------------------------------------
(* The row iterator: the claims *)

\* The rows of the file in file order, as <<stripe, row>>, from stripe s on.
RECURSIVE RowsFrom(_, _)
RowsFrom(stripes, s) ==
    IF s >= Len(stripes) THEN <<>>
    ELSE [i \in 1..stripes[s + 1] |-> <<s, i - 1>>] \o RowsFrom(stripes, s + 1)

FileRows == RowsFrom(r_file.stripes, 0)

\* read_column fails for the k-th selected column in stripe s.
DecodeFails(s, k) ==
    \/ r_columns[k] \notin FileColumnIds
    \/ DefectAt(r_file, s, r_columns[k], "corrupt")

\* Column::get(r) returns None for the k-th selected column in stripe s.
GetIsNone(s, k, r) ==
    /\ r_columns[k] \in FileColumnIds
    /\ r >= Len(ColumnValues(r_file, s, r_columns[k]))

\* Entering the row meets a failure: a selected column that does not decode
\* when the stripe is entered, or one that has no value for the row.
RowFails(row) ==
    \E k \in 1..Len(r_columns) :
        \/ row[2] = 0 /\ DecodeFails(row[1], k)
        \/ GetIsNone(row[1], k, row[2])

\* The position in FileRows of the first row that meets a failure, 0 if none.
FirstFailureIn(rows) ==
    LET bad == {j \in 1..Len(rows) : RowFails(rows[j])}
    IN  IF bad = {} THEN 0 ELSE CHOOSE j \in bad : \A i \in bad : j <= i

\* The failure of that row is a failure of read_column.
IsDecodeFailure(row) ==
    row[2] = 0 /\ \E k \in 1..Len(r_columns) : DecodeFails(row[1], k)

\* C2: if read_column fails for a selected column when a stripe is entered,
\* or Column::get returns None for the current row of a selected column,
\* next yields exactly one Err item for that failure, in the place of the row
\* that met it, and every later call returns None.
C2_OneErrThenNone ==
    LET rows == FileRows
        p == FirstFailureIn(rows)
    IN  /\ \A j \in 1..Len(r_items) : r_items[j].tag = "Err" <=> j = p
        /\ p > 0 =>
              /\ Len(r_items) <= p
              /\ r_nones > 0 => Len(r_items) = p
              /\ Len(r_items) = p =>
                    LET e == r_items[p].error
                    IN  IF IsDecodeFailure(rows[p])
                        THEN e.kind \in {"InvalidColumnIndex", "InvalidIntegerEncoding"}
                        ELSE /\ e.kind = "InvalidValue"
                             /\ e.stripe_index = rows[p][1]
                             /\ e.row_index = rows[p][2]
                             /\ \E k \in 1..Len(r_columns) :
                                    /\ e.column_index = r_columns[k]
                                    /\ GetIsNone(e.stripe_index, k, e.row_index)

\* Two stripes of two rows; column 1 of the second stripe is one value short.
\* Three rows come out, the fourth call yields InvalidValue, two more None.
C2_Witness ==
    /\ r_file = [stripes |-> <<2, 2>>,
                 defect |-> [kind |-> "short", stripe |-> 1, column |-> 1]]
    /\ r_columns = <<0, 1>>
    /\ Len(r_items) = 4
    /\ r_items[3].tag = "Ok"
    /\ r_items[4] = ItemErr(InvalidValue(1, 1, 1))
    /\ r_nones = MaxNones

\* The values the mapping function is handed for a row.
ExpectedValues(row) ==
    [k \in 1..Len(r_columns) |-> ValueU64(CellValue(row[1], r_columns[k], row[2]))]

\* C3: an Err returned by the mapping function is yielded as an item and
\* does not stop iteration: the call after it proceeds to the following row
\* (None is not returned while rows remain), so the number of items yielded
\* is what it is without the error, the total number of rows of all stripes.
C3_UserErrGoesOn ==
    LET rows == FileRows
        p == FirstFailureIn(rows)
    IN  /\ \A j \in 1..Len(r_items) :
              r_items[j].tag = "UserErr" =>
                  /\ r_items[j].values = ExpectedValues(rows[j])
                  /\ (j < Len(r_items) /\ r_items[j + 1].tag # "Err") =>
                        r_items[j + 1].values = ExpectedValues(rows[j + 1])
        /\ r_nones > 0 => Len(r_items) = IF p > 0 THEN p ELSE Len(rows)
        /\ (r_nones > 0 /\ p = 0) => Len(r_items) = Len(rows)

\* The mapping function fails on rows 1 of both stripes; all four rows are
\* yielded, an Ok after the first Err.
C3_Witness ==
    /\ r_file = [stripes |-> <<2, 2>>, defect |-> NoDefect]
    /\ r_columns = <<0>>
    /\ r_f = "ErrOnOdd"
    /\ r_nones = 1
    /\ Len(r_items) = 4
    /\ r_items[2].tag = "UserErr"
    /\ r_items[3] = ItemOk(<<ValueU64(100)>>)
    /\ r_items[4].tag = "UserErr"

\* One item per row, in file order, each made from one Value per selected
\* column index in the order asked for.
AllItemsOf(rows) == [j \in 1..Len(rows) |-> UserFn(r_f, ExpectedValues(rows[j]))]

AllItems == AllItemsOf(FileRows)

IsPrefix(s, t) == Len(s) <= Len(t) /\ s = SubSeq(t, 1, Len(s))

OneItemPerRow ==
    LET all == AllItems
    IN  /\ IsPrefix(r_items, all)
        /\ r_nones > 0 => r_items = all

\* No selected column fails to decode in a stripe that has rows.
NoDecodeFailure ==
    \A s \in 0..Len(r_file.stripes) - 1 :
        r_file.stripes[s + 1] > 0 => ~IsDecodeFailure(<<s, 0>>)

\* C4 (as claimed): when no selected column fails to decode, the iterator
\* yields exactly one item per row, stripes in file order, rows in
\* increasing order, stripes of zero rows yielding nothing, the mapping
\* function receiving one Value per selected column index in the order asked.
C4_WheneverColumnsDecode == NoDecodeFailure => OneItemPerRow

\* Every selected column that decodes holds a value for every row of its
\* stripe: get(r) is Some for every r below the stripe's row_count.
EveryRowHasValues ==
    \A s \in 0..Len(r_file.stripes) - 1 : \A k \in 1..Len(r_columns) :
        LET c == ReadColumn(r_file, s, r_columns[k])
        IN  c.tag = "Ok" =>
                \A r \in 0..r_file.stripes[s + 1] - 1 : ColumnGet(c.column, r).tag = "Some"

\* C4 (amended): the same, when no selected column fails to decode and
\* Column::get returns Some for every row below row_count of every selected
\* column.
C4_OneItemPerRow == (NoDecodeFailure /\ EveryRowHasValues) => OneItemPerRow

\* An empty stripe, then two rows of columns 1 and 0, in that order.
C4_Witness ==
    /\ r_file = [stripes |-> <<0, 2>>, defect |-> NoDefect]
    /\ r_columns = <<1, 0>>
    /\ r_f = "AlwaysOk"
    /\ r_nones = 1
    /\ r_items = <<ItemOk(<<ValueU64(110), ValueU64(100)>>),
                   ItemOk(<<ValueU64(111), ValueU64(101)>>)>>

----------------------------------------------------------------------------
(* The decompressor: the claims *)

\* The chunks that lie in the bytes [at, end) of a file, one after the other,
\* each as where it starts and the length its header declares; ok is FALSE
\* when a header or a body does not fit in what is left.
RECURSIVE RefChunksIn(_, _, _)
RefChunksIn(file, at, end) ==
    IF at = end THEN [ok |-> TRUE, chunks |-> <<>>]
    ELSE IF at + 3 > end THEN [ok |-> FALSE, chunks |-> <<>>]
    ELSE LET chunk_len == (file[at + 1] \div 2) + (128 * file[at + 2]) + (32768 * file[at + 3])
             rest == RefChunksIn(file, at + 3 + chunk_len, end)
         IN  IF at + 3 + chunk_len > end THEN [ok |-> FALSE, chunks |-> <<>>]
             ELSE [ok |-> rest.ok,
                   chunks |-> <<[at |-> at, chunk_len |-> chunk_len]>> \o rest.chunks]

\* The chunks of the window, if the window lies in the file and holds chunks
\* c1..cn, n >= 1, with sum(3 + chunk_len) = len.
WindowChunks ==
    IF dc_window.pos + dc_window.len > Len(dc_file) THEN <<>>
    ELSE LET r == RefChunksIn(dc_file, dc_window.pos, dc_window.pos + dc_window.len)
         IN  IF r.ok THEN r.chunks ELSE <<>>

\* The payload of a chunk: its body if its header says original or the file
\* is not compressed, what its body decodes into otherwise.
RefPayload(chunk) ==
    LET body == SubSeq(dc_file, chunk.at + 4, chunk.at + 3 + chunk.chunk_len)
    IN  IF dc_file[chunk.at + 1] % 2 = 1 \/ dc_window.compression = "NONE" THEN body
        ELSE Inflate(body)

\* The payloads of the first k chunks, one after the other.
RefPayloads(chunks, k) == Concat([i \in 1..k |-> RefPayload(chunks[i])])

\* The bytes of the window the first k chunks take, headers included.
RefTaken(chunks, k) == SumSeq([i \in 1..k |-> 3 + chunks[i].chunk_len])

\* C15: over a window that holds chunks c1..cn with sum(3 + chunk_len) = len,
\* the reads deliver the payloads of c1, c2, ..., cn in this order; a header
\* is read and a decoder opened for a chunk only when the chunks before it
\* are drained; a read returns 0 only after cn is drained; and remaining is
\* len less 3 + chunk_len for every chunk opened so far.
C15_ChunksInOrder ==
    (dc_status \notin {"idle", "unopened"} /\ WindowChunks # <<>>) =>
        \E chunks \in {WindowChunks} :
        \E k \in {Len(dc_opened)} :
            /\ dc_status \in {"open", "closed"}
            /\ dc_ret.tag \in {"None", "Ok"}
            /\ k \in 1..Len(chunks)
            /\ dc_opened = [i \in 1..k |-> chunks[i].chunk_len]
            /\ dc.decoder.start = chunks[k].at + 3
            /\ Len(dc_out) >= Len(RefPayloads(chunks, k - 1))
            /\ Len(dc_out) <= Len(RefPayloads(chunks, k))
            /\ dc_out = SubSeq(RefPayloads(chunks, k), 1, Len(dc_out))
            /\ (dc_ret.tag = "Ok" /\ dc_ret.n = 0) =>
                   (k = Len(chunks) /\ dc_out = RefPayloads(chunks, k))
            /\ dc.remaining = dc_window.len - RefTaken(chunks, k)

\* Two chunks after two bytes of the file, the second compressed: the first
\* is drained, the header of the second read, its payload delivered, and the
\* last read has returned 0.
C15_Witness ==
    /\ dc_file = <<9, 9>> \o Chunk(TRUE, <<7, 8, 9>>) \o Chunk(FALSE, <<1, 4, 3, 6>>)
                   \o <<1, 0, 0, 3, 0, 0, 42>>
    /\ dc_window = [pos |-> 2, len |-> 13, compression |-> "ZLIB"]
    /\ dc_opened = <<3, 4>>
    /\ dc_out = <<7, 8, 9, 4, 6, 6, 6>>
    /\ dc_ret = [tag |-> "Ok", n |-> 0]
    /\ dc.remaining = 0
    /\ dc_at = 15
    /\ dc_status = "open"

\* The last header read declares a chunk that, with its header, is longer
\* than what was left of the window.
HeaderBeyondWindow ==
    /\ dc_opened # <<>>
    /\ SumSeq([i \in 1..Len(dc_opened) |-> 3 + dc_opened[i]]) > dc_window.len

\* C16: when the header read by Decompressor::open or by a read declares a
\* chunk whose header and length exceed the bytes left in the window, the
\* operation fails: open or the read returns an error (InvalidMetadata).
C16_HeaderBeyondWindowFails ==
    HeaderBeyondWindow => (dc_status = "failed" \/ dc_ret.tag = "Err")

\* The end of the window the Decompressor was opened over.
WindowEnd == dc_window.pos + dc_window.len

\* C30: a Decompressor opened over the window [pos, pos + len), len = 0
\* included, reads no byte of the file at or beyond pos + len, header or
\* payload: the File is never left beyond the end of the window; and
\* remaining never goes below zero.
C30_StaysInWindow ==
    dc_status # "unopened" => (dc_at <= WindowEnd /\ dc.remaining >= 0)

----------------------------------------------------------------------------
(* Claims about the metadata parser *)

FourKinds == {"LONG", "INT", "STRING", "BOOLEAN"}

\* The PostScript and the footer of the file are read.
MetadataRead == p_meta.postscript = "ok" /\ p_meta.footer_ok

\* The index of the first type after node 0 whose kind is not one of the
\* four, or 0.
FirstOffending ==
    LET offending == {i \in 2..Len(p_meta.types) : p_meta.types[i].kind \notin FourKinds}
    IN  IF offending = {} THEN 0 ELSE CHOOSE i \in offending : \A k \in offending : i <= k

\* C17: OrcFile::open returns a handle only if the compression of the
\* PostScript is NONE, ZLIB or ZSTD and every type after node 0 is LONG, INT,
\* STRING or BOOLEAN.  A PostScript with another compression fails with
\* UnsupportedCompression of that kind before the footer is read; a footer
\* with a type after node 0 of another kind fails with UnsupportedType of the
\* first such kind; a footer without any type fails with InvalidMetadata.
C17_OpenChecksCompressionAndTypes ==
    /\ p_orc.state = "open" =>
          /\ p_meta.compression \in {"NONE", "ZLIB", "ZSTD"}
          /\ \A i \in 2..Len(p_meta.types) : p_meta.types[i].kind \in FourKinds
    /\ p_ret.call = "open" =>
          /\ p_ret.tag = "Ok" <=> p_orc.state = "open"
          /\ (p_meta.postscript = "ok" /\ p_meta.compression \notin {"NONE", "ZLIB", "ZSTD"}) =>
                /\ p_ret.tag = "Err" /\ p_ret.kind = "UnsupportedCompression"
                /\ p_ret.a = p_meta.compression
                /\ p_ret.reads = 0
          /\ (MetadataRead /\ p_meta.compression \in {"NONE", "ZLIB", "ZSTD"}) =>
                /\ FirstOffending # 0 =>
                      /\ p_ret.tag = "Err" /\ p_ret.kind = "UnsupportedType"
                      /\ p_ret.a = p_meta.types[FirstOffending].kind
                /\ p_meta.types = <<>> =>
                      p_ret.tag = "Err" /\ p_ret.kind = "InvalidMetadata"

\* A handle on a file whose node 0 is not a struct and whose other types are
\* the four kinds.
C17_Witness ==
    /\ p_ret.call = "open" /\ p_ret.tag = "Ok"
    /\ p_orc.state = "open"
    /\ p_meta.compression = "ZSTD"
    /\ p_meta.types[1].kind = "DOUBLE"
    /\ p_orc.type_kinds = <<"LONG", "INT", "STRING", "BOOLEAN">>

\* The columns (from 1) of a stripe that get_stripe_info makes a ColumnInfo
\* of: those with an encoding in the stripe footer and a type in the schema.
Planned(stripe) == 1..Min(Len(stripe.columns) - 1, Len(p_orc.type_kinds))

\* Column j of the schema is LONG, INT or BOOLEAN.
NoLengthsKind(j) == p_orc.type_kinds[j] \in {"LONG", "INT", "BOOLEAN"}

\* The stripe footer lists a LENGTH or DICTIONARY_DATA stream of nonzero
\* length for column j.
ListsNonzero(stripe, j) ==
    \E k \in 1..Len(stripe.streams) :
        /\ stripe.streams[k].column = j
        /\ stripe.streams[k].kind \in {"LENGTH", "DICTIONARY_DATA"}
        /\ stripe.streams[k].length # 0

\* The last stream of a kind the stripe footer lists for column j is of
\* nonzero length, for LENGTH or for DICTIONARY_DATA.
LastNonzero(stripe, j) ==
    \E k \in 1..Len(stripe.streams) :
        /\ stripe.streams[k].column = j
        /\ stripe.streams[k].kind \in {"LENGTH", "DICTIONARY_DATA"}
        /\ stripe.streams[k].length # 0
        /\ \A m \in (k + 1)..Len(stripe.streams) :
              ~(stripe.streams[m].column = j /\ stripe.streams[m].kind = stripe.streams[k].kind)

\* A stream of one of the four kinds names column 0 or a column after the
\* encodings of its stripe footer.
StreamOutOfColumns ==
    \E s \in 1..Len(p_meta.stripes) : \E k \in 1..Len(p_meta.stripes[s].streams) :
        /\ p_meta.stripes[s].streams[k].kind \in {"DATA", "LENGTH", "PRESENT", "DICTIONARY_DATA"}
        /\ p_meta.stripes[s].streams[k].column \notin 1..Len(p_meta.stripes[s].columns)

\* A BOOLEAN column of a stripe has an encoding other than DIRECT.
BooleanNotDirect ==
    \E s \in 1..Len(p_meta.stripes) : \E j \in Planned(p_meta.stripes[s]) :
        /\ p_orc.type_kinds[j] = "BOOLEAN"
        /\ p_meta.stripes[s].columns[j + 1].kind # "DIRECT"

\* get_stripe_info has returned, and not for a stripe footer it could not
\* read.
StripeFootersRead ==
    /\ p_ret.call = "get_stripe_info"
    /\ p_ret.kind \notin {"Io", "InvalidState"}

DictionaryColumnRead ==
    /\ p_ret.call = "read_column"
    /\ p_ret.column_id < Len(p_plan[p_ret.stripe].columns)
    /\ p_plan[p_ret.stripe].columns[p_ret.column_id + 1].tag = "Utf8Dictionary"

\* The dictionary size the stripe footer declares for the column read.
DeclaredSize == p_meta.stripes[p_ret.stripe].columns[p_ret.column_id + 2].dictionary_size

\* The number of entries the LENGTH stream of the column read decodes to.
DecodedCount == Len(p_meta.stripes[p_ret.stripe].contents[p_ret.column_id + 1]["length"].u64s)

FirstIndexOf(names, name) ==
    (CHOOSE i \in 1..Len(names) : names[i] = name /\ \A k \in 1..(i - 1) : names[k] # name) - 1

\* C20: the name-to-index lookup open builds maps every field name of node 0
\* to the index of its first occurrence, also when the name occurs more than
\* once, and get_field_names returns the names of node 0 in order, repeated
\* names included.
C20_FirstOccurrenceWins ==
    p_orc.state = "open" =>
       /\ p_orc.field_names = p_meta.types[1].field_names
       /\ DOMAIN p_orc.field_name_map = Range(p_meta.types[1].field_names)
       /\ \A name \in Range(p_meta.types[1].field_names) :
             p_orc.field_name_map[name] = FirstIndexOf(p_meta.types[1].field_names, name)

\* The names b, a, a, b: the lookup has b at 0 and a at 1.
C20_Witness ==
    /\ p_orc.state = "open"
    /\ p_orc.field_names = <<"b", "a", "a", "b">>
    /\ p_orc.field_name_map["a"] = 1
    /\ p_orc.field_name_map["b"] = 0

\* The four stream lengths of a ColumnInfo.
FourLens(column) ==
    <<column.present_len, column.data_len, column.length_len, column.dictionary_data_len>>

\* The windows a read_column that returned Ok has opened start at the offset
\* of its column in the data of the stripe, follow one another without a
\* gap, and end where the column ends.
ReadWindowsTile ==
    (p_ret.call = "read_column" /\ p_ret.tag = "Ok") =>
       LET stripe == p_plan[p_ret.stripe]
           column == stripe.columns[p_ret.column_id + 1]
           n == Len(p_ret.ranges)
       IN  /\ n > 0
           /\ SameExactSum(<<p_ret.ranges[1][1]>>,
                           <<stripe.data_start, column.offset>>)
           /\ \A k \in 1..(n - 1) :
                 SameExactSum(<<p_ret.ranges[k + 1][1]>>, p_ret.ranges[k])
           /\ SameExactSum(p_ret.ranges[n],
                           <<stripe.data_start, column.offset>> \o FourLens(column))

\* C21: in every StripeInfo get_stripe_info returns, the offset of the first
\* column is 0 and the offset of every other column is the offset of the
\* column before it plus the four stream lengths of that column; and the
\* windows read_column reads for a column lie one after the other from the
\* offset of the column to the offset of the next.
C21_OffsetsArePrefixSums ==
    /\ \A s \in 1..Len(p_plan) :
          LET columns == p_plan[s].columns
          IN  /\ columns # <<>> => columns[1].offset = 0
              /\ \A j \in 1..(Len(columns) - 1) :
                    SameExactSum(<<columns[j + 1].offset>>,
                                 <<columns[j].offset>> \o FourLens(columns[j]))
    /\ ReadWindowsTile

\* The exact sum of these u64 terms is below 2^64: no term is 2^63 or more,
\* or one is and the others do not make up for what it lacks.
FitsU64(terms) == Tops(terms) = 0 \/ (Tops(terms) = 1 /\ SumSeq(terms) < 0)

\* In every stripe of the file the start of the data and the lengths of the
\* streams the footer lists add up below 2^64.
StripeLengthsFit ==
    \A s \in 1..Len(p_meta.stripes) :
        LET stripe == p_meta.stripes[s]
        IN  FitsU64(<<stripe.offset + stripe.index_length>>
                      \o [k \in 1..Len(stripe.streams) |-> stripe.streams[k].length])

\* C21 amended: the same for a file whose stream lengths add up below 2^64
\* in every stripe.  The lengths are u64 read from the footer and added
\* without a check: beyond 2^64 the sum wraps, or the addition panics in a
\* build with overflow checks.
C21_OffsetsArePrefixSumsWhenFit == StripeLengthsFit => C21_OffsetsArePrefixSums

\* A dictionary string column after an integer column of 6 bytes is read:
\* its offset is 6 and its four windows of 1, 5, 3 and 4 bytes follow from
\* there.
C21_Witness ==
    /\ p_ret.call = "read_column"
    /\ p_ret.tag = "Ok"
    /\ p_ret.column_id = 1
    /\ StripeLengthsFit
    /\ LET stripe == p_plan[p_ret.stripe]
       IN  /\ Len(stripe.columns) = 2
           /\ stripe.columns[2].offset = 6
           /\ p_ret.ranges = <<(<<stripe.data_start + 6, 1>>), (<<stripe.data_start + 7, 5>>),
                                (<<stripe.data_start + 12, 3>>), (<<stripe.data_start + 15, 4>>)>>

\* The sum of the lengths of the streams of a kind a stripe footer lists for
\* column j.
RECURSIVE ListedSum(_, _, _, _)
ListedSum(streams, j, kind, k) ==
    IF k > Len(streams) THEN 0
    ELSE (IF streams[k].column = j /\ streams[k].kind = kind THEN streams[k].length ELSE 0)
           + ListedSum(streams, j, kind, k + 1)

\* The lengths of a ColumnInfo are the sums of the lengths listed for column
\* j, for the fields its variant has.
HoldsListedSums(column, streams, j) ==
    /\ column.present_len = ListedSum(streams, j, "PRESENT", 1)
    /\ column.data_len = ListedSum(streams, j, "DATA", 1)
    /\ column.tag \in {"Utf8Direct", "Utf8Dictionary"} =>
          column.length_len = ListedSum(streams, j, "LENGTH", 1)
    /\ column.tag = "Utf8Dictionary" =>
          column.dictionary_data_len = ListedSum(streams, j, "DICTIONARY_DATA", 1)

\* A stream of one of the four kinds names a column after the encodings of
\* its stripe footer.
StreamBeyondColumns ==
    \E s \in 1..Len(p_meta.stripes) : \E k \in 1..Len(p_meta.stripes[s].streams) :
        /\ p_meta.stripes[s].streams[k].kind \in {"DATA", "LENGTH", "PRESENT", "DICTIONARY_DATA"}
        /\ p_meta.stripes[s].streams[k].column > Len(p_meta.stripes[s].columns)

\* C22: in the stripe plan of get_stripe_info the present, data, length and
\* dictionary data length of a column are each the sum of the lengths of the
\* streams of that kind listed for the column, and a stream of the struct
\* column, column 0, is skipped: it does not make get_stripe_info panic.
C22_StreamLengthsAreSummed ==
    StripeFootersRead =>
       /\ p_ret.tag = "Ok" =>
             \A s \in 1..Len(p_plan) : \A j \in 1..Len(p_plan[s].columns) :
                 HoldsListedSums(p_plan[s].columns[j], p_meta.stripes[s].streams, j)
       /\ p_ret.tag = "Panic" => StreamBeyondColumns

\* The call before this state was get_stripe_info or read_column (both go
\* through the stream and message reads that take the file; get_stripe_info
\* is get_stripe_footers and the plan made of them) and it returned Ok.
CallSucceeded ==
    /\ p_ret.call \in {"get_stripe_info", "read_column"}
    /\ p_ret.tag = "Ok"

\* C26: after every get_stripe_footers, get_stripe_info or read_column that
\* returns Ok the OrcFile holds the file again, and the call that follows
\* does not return InvalidState.
C26_FileHeldAfterSuccess ==
    [][/\ CallSucceeded' => p_orc'.held
       /\ CallSucceeded => ~(p_ret'.tag = "Err" /\ p_ret'.kind = "InvalidState")]_vars

\* read_column has read the three streams of a direct string column after
\* get_stripe_info read the stripe footers, and the file is back.
C26_Witness ==
    /\ p_ret.call = "read_column"
    /\ p_ret.tag = "Ok"
    /\ p_ret.reads = 3
    /\ p_orc.held

\* read_column returned InvalidIntegerEncoding or an I/O error.
ReadColumnFailed ==
    /\ p_ret.call = "read_column"
    /\ p_ret.tag = "Err"
    /\ p_ret.kind \in {"InvalidIntegerEncoding", "Io"}

\* C27: when read_column returns InvalidIntegerEncoding or an I/O error the
\* file has been put back, and the read_column that follows does not return
\* InvalidState.
C27_FileHeldAfterFailure ==
    [][/\ ReadColumnFailed' => p_orc'.held
       /\ (ReadColumnFailed /\ p_ret'.call = "read_column")
             => ~(p_ret'.tag = "Err" /\ p_ret'.kind = "InvalidState")]_vars
----------------------------------------------------------------------------
(* Integer RLE v2: the claims *)

\* ceil(bits / 8)
RefBytesFor(bits) == (bits + 7) \div 8

\* The width a five-bit code stands for; code 0 is width 1 except in Delta.
RefWidth(code, is_delta) == IF code = 0 /\ ~is_delta THEN 1 ELSE FIVE_BIT_ENCODING[code + 1]

\* The fixed width the sum of the patch widths is rounded up to.
RefRoundUpFixed(bits) ==
    IF bits = 0 THEN 1
    ELSE CHOOSE w \in (1..24) \cup {26, 28, 30, 32, 40, 48, 56, 64} :
             /\ w >= Min(bits, 64)
             /\ \A v \in (1..24) \cup {26, 28, 30, 32, 40, 48, 56, 64} :
                    v >= Min(bits, 64) => w <= v

\* The length of the v2 frame at the head of bytes as the format lays it out,
\* or 0 if bytes ends before the frame does.
RefV2FrameLen(bytes) ==
    LET H0 == bytes[1]
        tag == H0 \div 64
        width == RefWidth((H0 \div 2) % 32, tag = 3)
        len == (H0 % 2) * 256 + bytes[2] + 1
        whole ==
            CASE tag = 0 -> 1 + ((H0 \div 8) % 8) + 1
              [] Len(bytes) < 2 -> 0
              [] tag = 1 -> 2 + RefBytesFor(width * len)
              [] tag = 3 ->
                    LET n1 == RefVarintLen(bytes, 3)
                        n2 == IF n1 = 0 THEN 0 ELSE RefVarintLen(bytes, 3 + n1)
                    IN  IF n2 = 0 THEN 0
                        ELSE 2 + n1 + n2 + RefBytesFor(width * (IF len < 2 THEN 0 ELSE len - 2))
              [] Len(bytes) < 4 -> 0
              [] OTHER ->
                    4 + (bytes[3] \div 32) + 1 + RefBytesFor(width * len)
                      + RefBytesFor((bytes[4] % 32)
                                    * RefRoundUpFixed((bytes[4] \div 32) + 1
                                                      + RefWidth(bytes[3] % 32, FALSE)))
    IN  IF whole = 0 \/ whole > Len(bytes) THEN 0 ELSE whole

\* The length of the frame at the head of bytes, or 0 if bytes ends before.
RefFrameLen(version, bytes) ==
    IF version = 1
    THEN LET f == RefV1Frame(bytes) IN IF f.legal THEN f.consumed ELSE 0
    ELSE RefV2FrameLen(bytes)

\* bytes, read frame after frame, ends inside a frame.
RECURSIVE EndsInsideFrame(_, _)
EndsInsideFrame(version, bytes) ==
    IF bytes = <<>> THEN FALSE
    ELSE \E n \in {RefFrameLen(version, bytes)} :
             n = 0 \/ EndsInsideFrame(version, SubSeq(bytes, n + 1, Len(bytes)))

\* C11: for both decoders, decode_u64s on an input that ends inside a frame
\* (in the header, in a varint or in the packed payload) ends with failure,
\* the None that read_u64s turns into InvalidIntegerEncoding, and never with
\* a panic.
C11_CutShortIsFailure ==
    (i_status \notin {"idle", "running"} /\ EndsInsideFrame(i_version, IntBytes)) =>
        i_status = "none"

\* Bit k of the bytes after the first `skip`, the most significant bit of a
\* byte first.
RefBitAt(bytes, skip, k) == (bytes[skip + (k \div 8) + 1] \div (2 ^ (7 - (k % 8)))) % 2

\* The unsigned integer whose `width` bits are the bits from `from` on, the
\* most significant first, as a u64: bit p of the integer is bit
\* from + width - 1 - p.
RefBitsValue(bytes, skip, from, width) ==
    LET ValueBit(p) == IF p < width THEN RefBitAt(bytes, skip, from + width - 1 - p) ELSE 0
        LimbOf(low) ==
            ValueBit(low) + 2 * ValueBit(low + 1) + 4 * ValueBit(low + 2)
              + 8 * ValueBit(low + 3) + 16 * ValueBit(low + 4) + 32 * ValueBit(low + 5)
              + 64 * ValueBit(low + 6) + 128 * ValueBit(low + 7) + 256 * ValueBit(low + 8)
              + 512 * ValueBit(low + 9) + 1024 * ValueBit(low + 10)
              + 2048 * ValueBit(low + 11) + 4096 * ValueBit(low + 12)
              + 8192 * ValueBit(low + 13) + 16384 * ValueBit(low + 14)
              + 32768 * ValueBit(low + 15)
    IN  <<LimbOf(48), LimbOf(32), LimbOf(16), LimbOf(0)>>

\* What the format prescribes for a Direct frame: its values and its length.
RefDirect(frame) ==
    LET H0 == frame[1]
        H1 == frame[2]
        width == RefWidth((H0 \div 2) % 32, FALSE)
        len == ((H0 % 2) * 256) + H1 + 1
    IN  [values |-> [i \in 1..len |-> RefBitsValue(frame, 2, (i - 1) * width, width)],
         consumed |-> 2 + RefBytesFor(width * len)]

\* C12: a Direct frame of width FIVE_BIT[(H0 >> 1) & 0x1F] (1 for code 0) and
\* len = (((H0 & 1) << 8) | H1) + 1 makes the v2 decoder emit exactly len
\* values, the i-th the unsigned integer in bits [i * width, (i + 1) * width)
\* of the payload, most significant bit first, and return the length
\* 2 + ceil(width * len / 8).
C12_DirectValuesAndLength ==
    FirstFrameRead =>
        \E ref \in {RefDirect(i_frames[1])} :
            /\ i_status \in {"running", "some"}
            /\ i_reads # <<>>
            /\ i_reads[1] = ref.consumed
            /\ Len(i_values) >= Len(ref.values)
            /\ SubSeq(i_values, 1, Len(ref.values)) = ref.values
            /\ Len(i_reads) = 1 => Len(i_values) = Len(ref.values)

\* Four values of three bits, the last four bits of the payload left over,
\* and then the ShortRepeat test vector.
C12_Witness ==
    /\ i_frames = <<DirectFrame(2, 4, <<165, 90, 255, 0, 19>>), SHORT_REPEAT_INPUT>>
    /\ i_reads = <<4, 3>>
    /\ i_status = "some"
    /\ SubSeq(i_values, 1, 4) = <<U64Of(5), U64Of(1), U64Of(2), U64Of(5)>>
    /\ Len(i_values) = 9

\* The fields of a PatchedBase header as the format lays them out.
RefPatchedHeader(frame) ==
    [width |-> RefWidth((frame[1] \div 2) % 32, FALSE),
     len |-> ((frame[1] % 2) * 256) + frame[2] + 1,
     base_width |-> (frame[3] \div 32) + 1,
     patch_width |-> RefWidth(frame[3] % 32, FALSE),
     patch_gap_width |-> (frame[4] \div 32) + 1,
     patch_list_len |-> frame[4] % 32]

\* Patch j of a frame, counted from 0: its gap and its value, the two at the
\* low end of the item of round_up_fixed(patch_gap_width + patch_width) bits.
RefPatch(frame, h, j) ==
    LET item == RefRoundUpFixed(h.patch_gap_width + h.patch_width)
        skip == 4 + h.base_width + RefBytesFor(h.width * h.len)
    IN  [gap |-> RefBitsValue(frame, skip, (j * item) + item - h.patch_width
                                             - h.patch_gap_width, h.patch_gap_width)[4],
         value |-> RefBitsValue(frame, skip, (j * item) + item - h.patch_width,
                                h.patch_width)]

\* The position of patch j: the sum of the gaps up to and including its own.
RECURSIVE RefPatchPosition(_, _, _)
RefPatchPosition(frame, h, j) ==
    RefPatch(frame, h, j).gap + (IF j = 0 THEN 0 ELSE RefPatchPosition(frame, h, j - 1))

\* sum + (patch_value << width) for each of the patches 0..j-1 at position i,
\* in 64 bits.
RECURSIVE RefPatchedSum(_, _, _, _, _)
RefPatchedSum(frame, h, i, j, sum) ==
    IF j = 0 THEN sum
    ELSE LET before == RefPatchedSum(frame, h, i, j - 1, sum)
         IN  IF RefPatchPosition(frame, h, j - 1) = i
             THEN U64Add(before, Shl(RefPatch(frame, h, j - 1).value, h.width)).v
             ELSE before

\* What the format prescribes for a PatchedBase frame: its values and its
\* length.
RefPatched(frame) ==
    LET h == RefPatchedHeader(frame)
        base == RefBitsValue(frame, 4, 0, 8 * h.base_width)
        Data(i) == RefBitsValue(frame, 4 + h.base_width, i * h.width, h.width)
    IN  [values |-> [i \in 1..h.len |->
                        RefPatchedSum(frame, h, i - 1, h.patch_list_len,
                                      U64Add(base, Data(i - 1)).v)],
         consumed |-> 4 + h.base_width + RefBytesFor(h.width * h.len)
                        + RefBytesFor(h.patch_list_len
                                      * RefRoundUpFixed(h.patch_gap_width + h.patch_width))]

\* The patches of the first frame fit their items: the two widths are no more
\* than 64 bits together.
PatchesFit ==
    \E h \in {RefPatchedHeader(i_frames[1])} : h.patch_gap_width + h.patch_width <= 64

\* C13: a PatchedBase frame makes the v2 decoder emit exactly len values,
\* value i being base + packed_data[i], plus patch_value << width for each
\* patch whose position, the sum of the gaps up to and including its own, is
\* i; each patch is read at the low end of its item of
\* round_up_fixed(patch_gap_width + patch_width) bits.
C13_PatchedValuesAndLength ==
    (FirstFrameRead /\ PatchesFit) =>
        \E ref \in {RefPatched(i_frames[1])} :
            /\ i_status \in {"running", "some"}
            /\ i_reads # <<>>
            /\ i_reads[1] = ref.consumed
            /\ Len(i_values) >= Len(ref.values)
            /\ SubSeq(i_values, 1, Len(ref.values)) = ref.values
            /\ Len(i_reads) = 1 => Len(i_values) = Len(ref.values)

\* The signed integer a varint u stands for, in two's complement: u / 2 for
\* an even u, -(u + 1) / 2 for an odd one.
RefSignedOf(u) ==
    IF u[4] % 2 = 0 THEN Shr(u, 1) ELSE Neg(AddCarry(Shr(u, 1), U64Of(1)).v)

\* The zigzag re-encoding of a signed integer b, in 64 bits: 2 * b for
\* b >= 0, -2 * b - 1 for b < 0.
RefZigZagOf(b) ==
    IF IsNegative(b) THEN AddCarry(AddCarry(Neg(b), Neg(b)).v, Neg(U64Of(1))).v
    ELSE AddCarry(b, b).v

\* previous + sign(first_delta) * magnitude, in 64 bits.
RefDeltaStep(previous, first_delta, magnitude) ==
    IF first_delta = U64Zero THEN previous
    ELSE IF IsNegative(first_delta) THEN AddCarry(previous, Neg(magnitude)).v
    ELSE AddCarry(previous, magnitude).v

\* Value i of a Delta frame, counted from 0.
RECURSIVE RefDeltaValue(_, _, _, _, _, _)
RefDeltaValue(frame, skip, width, base, first_delta, i) ==
    IF i = 0 THEN base
    ELSE LET previous == RefDeltaValue(frame, skip, width, base, first_delta, i - 1)
         IN  IF i = 1 \/ width = 0 THEN AddCarry(previous, first_delta).v
             ELSE RefDeltaStep(previous, first_delta,
                               RefBitsValue(frame, skip, (i - 2) * width, width))

\* What the format prescribes for a Delta frame: its values and its length.
\* The base pushed for an unsigned column is the zigzag re-encoding of the
\* signed base.
RefDelta(frame, signed) ==
    LET width == RefWidth((frame[1] \div 2) % 32, TRUE)
        len == ((frame[1] % 2) * 256) + frame[2] + 1
        n1 == RefVarintLen(frame, 3)
        n2 == RefVarintLen(frame, 3 + n1)
        b == RefSignedOf(RefVarintValue(frame, 3, n1))
        base == IF signed THEN b ELSE RefZigZagOf(b)
        first_delta == RefSignedOf(RefVarintValue(frame, 3 + n1, n2))
    IN  [values |-> [i \in 1..len |->
                        RefDeltaValue(frame, 2 + n1 + n2, width, base, first_delta, i - 1)],
         consumed |-> 2 + n1 + n2 + RefBytesFor(width * (IF len < 2 THEN 0 ELSE len - 2))]

\* C14: a Delta frame makes the v2 decoder emit base, then base + first_delta,
\* then for each of the len - 2 values left the one before plus first_delta
\* when width is 0, and the one before plus sign(first_delta) times the next
\* unsigned integer of width bits otherwise; for an unsigned column the base
\* emitted is the zigzag re-encoding of the signed varint.
C14_DeltaValuesAndLength ==
    FirstFrameRead =>
        \E ref \in {RefDelta(i_frames[1], i_signed)} :
            /\ i_status \in {"running", "some"}
            /\ i_reads # <<>>
            /\ i_reads[1] = ref.consumed
            /\ Len(i_values) >= Len(ref.values)
            /\ SubSeq(i_values, 1, Len(ref.values)) = ref.values
            /\ Len(i_reads) = 1 => Len(i_values) = Len(ref.values)

\* This step is a turn of the loop of decode_u64s in which append_next_u64s
\* returned Some: one more frame is read.
FrameDecoded == Len(i_reads') = Len(i_reads) + 1

\* The header of the frame the decoder is at.
HeaderAtPos == ParseHeader(SubSeq(IntBytes, i_pos + 1, Len(IntBytes))).header

\* C28: every integer RLE v2 frame that append_next_u64s decodes to Some makes
\* the values grow by exactly what Header::value_count gives for its header:
\* repeat_count for ShortRepeat, len for Direct, PatchedBase and Delta, and
\* the values before it stay as they were.
C28_GrowthIsValueCount ==
    [][(i_version = 2 /\ FrameDecoded) =>
          /\ Len(i_values') = Len(i_values) + HeaderValueCount(HeaderAtPos)
          /\ SubSeq(i_values', 1, Len(i_values)) = i_values]_vars

\* The ten values of the Delta test vector and then a Direct frame of 258
\* values of three bits: 268 values after two frames.
C28_Witness ==
    /\ i_version = 2
    /\ Len(i_frames) = 2
    /\ i_frames[1] = DELTA_INPUT
    /\ i_frames[2] \in {DirectFrame(2, 258, pattern) : pattern \in PayloadPatterns}
    /\ Len(i_reads) = 2
    /\ i_status = "some"
    /\ Len(i_values) = 10 + 258

\* The length the frame read in this step reported.
Consumed == i_reads'[Len(i_reads')]

\* The bytes of the input the loop of decode_u64s has still to read.
BytesLeft == Len(IntBytes) - i_pos

=============================================================================
